---- MODULE Spec2Model ----
(***************************************************************************)
(* The executor of envready as state machines: Shell.stream and            *)
(* Shell.session of src/src/executor/shell.ts, and Package.detect,         *)
(* Package.download and Package.install of src/src/executor/package.ts.    *)
(* Each has its own specification (Spec and FairSpec, SessSpec, DetSpec,   *)
(* DlSpec, InstSpec); the variables of the others rest meanwhile.  The     *)
(* text of a stream call (TextSpec, EchoSpec), Package.fromUrl (UrlSpec),  *)
(* the install strategies (StratSpec, TmpSpec) and two stream calls side   *)
(* by side (DuoSpec) follow, then the catch handler of session on a kill  *)
(* (CatchSpec), the lines of the output (LineSpec), and of the install     *)
(* command src/src/cli/cmd/install.ts the stall handler (HandlerSpec and   *)
(* HandlerFair), errorRecoveryLoop (RecSpec) and Ctrl+C (SigSpec).         *)
(*                                                                         *)
(* Shell.stream comes first.                                               *)
(* One call of stream(): the child process, the timeout timer, the stall   *)
(* (idle) timer with its decision callback, the cancellation token, the    *)
(* 3 s kill-escalation timers and the promise the call returns.            *)
(*                                                                         *)
(* Time is discrete, one tick standing for one second.  A timer holds the  *)
(* ticks it still has to run; it fires when that reaches 0, and time does  *)
(* not advance past a timer that is due (events of the same tick happen in *)
(* any order).  The text of the output chunks plays no part in the timers  *)
(* and signals modelled here: a chunk is an event that restarts the idle   *)
(* timer.                                                                  *)
(***************************************************************************)
EXTENDS Integers, Sequences, FiniteSets, TLC

\* ---------------------------------------------------------------- bounds

\* The clock (elapsed, idle time) saturates here.
MaxTime == 3
\* The stall timer fires at most this often in one call: the child stops
\* producing output, and the decision callback stops answering "wait", once
\* the stall count has reached it.
MaxStalls == 2
\* The grace window of the kill escalation: setTimeout(..., 3000).
Grace == 3
\* o.timeout and o.stallTimeout, in ticks; 0 is "not set".
TimeoutChoices == {0, 3}
StallChoices == {0, 2}

Min(a, b) == IF a < b THEN a ELSE b

\* ----------------------------------------------------------------- state

VARIABLES
    o,            \* the StreamOptions of the call
    child,        \* how the command treats SIGTERM
    phase,        \* "spawnfail" | "failed" | "running" | "exited" | "reaped" | "closed"
                  \* ("none": no child was spawned)
    code,         \* the exit code 'close' hands over: "none","0","1","null","ENOENT"
    termSent,     \* SIGTERM was delivered to the running child
    killSent,     \* SIGKILL was delivered to the running child
    procKilled,   \* proc.killed: some proc.kill() succeeded in sending a signal
    killed,       \* let killed
    stalled,      \* let stalled
    stallCount,   \* let stallCount
    timers,       \* the armed timers: timer, stallTimer and the anonymous grace timers
    aborted,      \* o.signal.aborted
    pending,      \* invocations of o.onStall that have not answered yet
    calls,        \* the StallInfo of every invocation of o.onStall, in order
    outcome,      \* how the promise settled
    now,          \* Date.now() - startTime
    idle,         \* time since the last output chunk (or since the start)
    noOutput,     \* no chunk has arrived yet
    gapReached,   \* some gap between chunks reached o.stallTimeout while the call was open
    killReqs,     \* who asked for a kill, in order: the first request of each of
                  \* "timeout", "aborted", "stall", with what it found
    atClose,      \* what held when the close handler ran
    sess,         \* a Shell.session call: its commands, the script, the shell running it
    det,          \* a Package.detect call: the filename and the formats returned
    pkg,          \* a Package.download / Package.install call and the files it touches
    io,           \* the text of a stream call: the chunks, what is echoed, the message
    duo,          \* two stream calls that run at the same time
    cli           \* the install command: its recovery loop, its Ctrl+C handling

vars == <<o, child, phase, code, termSent, killSent, procKilled, killed, stalled,
          stallCount, timers, aborted, pending, calls, outcome, now, idle,
          noOutput, gapReached, killReqs, atClose, sess, det, pkg, io, duo, cli>>

\* What a call of Shell.stream does not touch.
others == <<sess, det, pkg, io, duo, cli>>

\* The value of a variable whose component is not part of the run.
Idle == [pc |-> "idle"]

procVars == <<phase, code>>
sigVars  == <<termSent, killSent, procKilled>>
histVars == <<killReqs, atClose>>
clockVars == <<now, idle, noOutput, gapReached>>

Pending == [kind |-> "pending", cause |-> "-", code |-> "-", elapsed |-> 0, stallCount |-> 0]

\* ------------------------------------------------------- the child process

\* proc.kill(sig) reaches the process while the handle is open: the child is
\* running, or has exited and is not yet reaped.  After the 'exit' event, and
\* when the spawn failed, kill() returns false and changes nothing.
KillSucceeds == phase \in {"running", "exited"}

\* proc.kill("SIGTERM")
ProcKillTerm ==
    /\ procKilled' = (procKilled \/ KillSucceeds)
    /\ termSent' = (termSent \/ phase = "running")
    /\ UNCHANGED killSent

\* proc.kill("SIGKILL")
ProcKillKill ==
    /\ procKilled' = (procKilled \/ KillSucceeds)
    /\ killSent' = (killSent \/ phase = "running")
    /\ UNCHANGED termSent

\* ---------------------------------------------------------------- timers

Timer(k, c, r) == [kind |-> k, cause |-> c, rem |-> r]

Armed(k) == \E t \in timers : t.kind = k

\* clearTimeout(x) for x the timer of kind k
Clear(ts, k) == {t \in ts : t.kind # k}

\* A resetStallTimer that arms the idle timer one tick short.
ResetStallTimerShort(ts) ==
    IF o.stallTimeout <= 0 THEN ts
    ELSE Clear(ts, "stall") \cup {Timer("stall", "-", o.stallTimeout - 1)}

\* resetStallTimer: nothing when stall detection is off; else the old idle
\* timer is cleared and a new one armed for o.stallTimeout.
ResetStallTimer(ts) ==
    IF o.stallTimeout <= 0 THEN ts
    ELSE Clear(ts, "stall") \cup {Timer("stall", "-", o.stallTimeout)}

\* setTimeout(() => { if (!proc.killed) proc.kill("SIGKILL") }, 3000)
ArmGrace(ts, c) == ts \cup {Timer("grace", c, Grace)}

\* Handlers that clear the timeout timer and leave the idle timer armed.
ClearOnCloseTimeoutOnly(ts) == Clear(ts, "timeout")

\* the close and error handlers: clearTimeout(timer); clearTimeout(stallTimer)
ClearOnClose(ts) == Clear(Clear(ts, "timeout"), "stall")

\* The promise settles once: a later resolve or reject is ignored.
Settle(r) == IF outcome.kind = "pending" THEN r ELSE outcome

\* The record of a kill request: by whom, whether the child was still running, and for
\* a stall how the decision came about ("default": no handler, "throw", "kill").
AddReq(by, how) ==
    IF \E i \in 1..Len(killReqs) : killReqs[i].by = by THEN killReqs
    ELSE Append(killReqs, [by |-> by, live |-> (phase = "running"), how |-> how])

Requested(by) == \E i \in 1..Len(killReqs) : killReqs[i].by = by

\* ------------------------------------------------------------------ Init

\* The state when stream() returns its promise: the child is spawned (or the
\* spawn has failed, which the 'error' event reports later), the idle timer
\* and the timeout timer are armed, and a token that is already triggered
\* has sent SIGTERM.
Init ==
    /\ cli = Idle
    /\ o \in [timeout : TimeoutChoices, stallTimeout : StallChoices,
              onStall : BOOLEAN, signal : {"none", "fresh", "aborted"}]
    /\ child \in [ignoresTerm : BOOLEAN]
    /\ phase \in {"running", "spawnfail"}
    /\ code = "none"
    /\ killSent = FALSE
    /\ termSent = (o.signal = "aborted" /\ phase = "running")
    /\ procKilled = (o.signal = "aborted" /\ phase = "running")
    /\ killed = (o.signal = "aborted")
    /\ killReqs = (IF o.signal = "aborted"
                   THEN <<[by |-> "aborted", live |-> (phase = "running"), how |-> "-"]>> ELSE <<>>)
    /\ aborted = (o.signal = "aborted")
    /\ stalled = FALSE
    /\ stallCount = 0
    /\ timers = ResetStallTimer({})
                \cup (IF o.timeout > 0 THEN {Timer("timeout", "-", o.timeout)} ELSE {})
    /\ pending = 0
    /\ calls = <<>>
    /\ outcome = Pending
    /\ now = 0
    /\ idle = 0
    /\ noOutput = TRUE
    /\ gapReached = FALSE
    /\ atClose = [done |-> FALSE, killed |-> FALSE, stallCount |-> 0, ncalls |-> 0]
    /\ sess = Idle
    /\ det = Idle
    /\ pkg = Idle
    /\ io = Idle
    /\ duo = Idle

\* --------------------------------------------------------------- actions

\* One second passes.  No armed timer is overdue, and a failed spawn has been
\* reported (the 'error' event comes on the next tick of the event loop).
Tick ==
    /\ phase # "spawnfail"
    /\ \A t \in timers : t.rem > 0
    /\ now' = Min(now + 1, MaxTime)
    /\ idle' = Min(idle + 1, o.stallTimeout)
    /\ gapReached' = (gapReached \/ (o.stallTimeout > 0 /\ phase # "closed"
                                      /\ idle' >= o.stallTimeout))
    /\ timers' = {Timer(t.kind, t.cause, t.rem - 1) : t \in timers}
    /\ UNCHANGED <<others, o, child, procVars, sigVars, killed, stalled, stallCount, aborted,
                   pending, calls, outcome, noOutput, histVars>>

\* Data handlers of which only the stdout one restarts the idle timer.
DataTimersStdoutOnly(s) == IF s = "stdout" THEN ResetStallTimer(timers) ELSE timers

\* proc.stdout.on("data") and proc.stderr.on("data"): both restart the idle
\* timer.  The pipes deliver until 'close'.
DataTimers(s) == ResetStallTimer(timers)

Data(s) ==
    /\ phase \in {"running", "exited", "reaped"}
    /\ stallCount < MaxStalls
    /\ timers' = DataTimers(s)
    /\ idle' = 0
    /\ noOutput' = FALSE
    /\ UNCHANGED <<others, o, child, procVars, sigVars, killed, stalled, stallCount, aborted,
                   pending, calls, outcome, now, gapReached, histVars>>

\* The command ends by itself with an exit status (a handler of SIGTERM that
\* exits is such an end too).
ChildExit(c) ==
    /\ phase = "running"
    /\ phase' = "exited"
    /\ code' = c
    /\ UNCHANGED <<others, o, child, sigVars, killed, stalled, stallCount, timers, aborted,
                   pending, calls, outcome, clockVars, histVars>>

\* The command is ended by a signal: SIGKILL always, SIGTERM unless the
\* command ignores it.  'close' then reports code null.
ChildDies ==
    /\ phase = "running"
    /\ killSent \/ (termSent /\ ~child.ignoresTerm)
    /\ phase' = "exited"
    /\ code' = "null"
    /\ UNCHANGED <<others, o, child, sigVars, killed, stalled, stallCount, timers, aborted,
                   pending, calls, outcome, clockVars, histVars>>

\* Node sees the exit ('exit' event): the handle is closed, kill() fails from
\* here on.
Reap ==
    /\ phase = "exited"
    /\ phase' = "reaped"
    /\ UNCHANGED <<others, o, child, code, sigVars, killed, stalled, stallCount, timers, aborted,
                   pending, calls, outcome, clockVars, histVars>>

\* stallCount++
NextStallCount == stallCount + 1

\* The info handed to o.onStall (cmd and lastOutput left out).
StallInfo == [stallCount |-> NextStallCount, elapsed |-> now]

\* The else branch of the decision: stalled, killed, SIGTERM, grace timer.
KillDecision(ts, how) ==
    /\ stalled' = TRUE
    /\ killed' = TRUE
    /\ killReqs' = AddReq("stall", how)
    /\ ProcKillTerm
    /\ timers' = ArmGrace(ts, "stall")

\* The idle timer fires: the count goes up and the handler is asked; with no
\* handler the decision is "kill" at once.
StallFire ==
    /\ \E t \in timers : t.kind = "stall" /\ t.rem = 0
    /\ stallCount' = NextStallCount
    /\ IF o.onStall
       THEN /\ calls' = Append(calls, StallInfo)
            /\ pending' = pending + 1
            /\ timers' = Clear(timers, "stall")
            /\ UNCHANGED <<killed, stalled, sigVars, killReqs>>
       ELSE /\ KillDecision(Clear(timers, "stall"), "default")
            /\ UNCHANGED <<calls, pending>>
    /\ UNCHANGED <<others, o, child, procVars, aborted, outcome, clockVars, atClose>>

\* A decision with its branches the wrong way round.
DecideSwapped(d) == IF d = "wait" THEN "kill" ELSE "wait"

\* What follows "await o.onStall(info)": the handler answers "wait" or "kill",
\* or throws (rejects), which is taken as "kill".
Decide(d) == IF d = "wait" THEN "wait" ELSE "kill"

DecisionAnswer(d) ==
    /\ pending > 0
    /\ d = "wait" => stallCount < MaxStalls
    /\ pending' = pending - 1
    /\ IF Decide(d) = "wait"
       THEN /\ timers' = ResetStallTimer(timers)
            /\ UNCHANGED <<killed, stalled, sigVars, killReqs>>
       ELSE KillDecision(timers, d)
    /\ UNCHANGED <<others, o, child, procVars, stallCount, aborted, calls, outcome,
                   clockVars, atClose>>

\* The timeout timer fires.
TimeoutFire ==
    /\ \E t \in timers : t.kind = "timeout" /\ t.rem = 0
    /\ killed' = TRUE
    /\ killReqs' = AddReq("timeout", "-")
    /\ ProcKillTerm
    /\ timers' = ArmGrace(Clear(timers, "timeout"), "timeout")
    /\ UNCHANGED <<others, o, child, procVars, stalled, stallCount, aborted, pending, calls,
                   outcome, clockVars, atClose>>

\* The cancellation token fires; the listener was added when the token was
\* not yet triggered at the start, and it runs once.
AbortFire ==
    /\ o.signal = "fresh"
    /\ ~aborted
    /\ aborted' = TRUE
    /\ killed' = TRUE
    /\ killReqs' = AddReq("aborted", "-")
    /\ ProcKillTerm
    /\ timers' = ArmGrace(timers, "aborted")
    /\ UNCHANGED <<others, o, child, procVars, stalled, stallCount, pending, calls,
                   outcome, clockVars, atClose>>

\* if (!proc.killed)
GraceGuard == ~procKilled

\* A grace timer fires, 3 s after the SIGTERM of its cause.
GraceFire(t) ==
    /\ t \in timers
    /\ t.kind = "grace"
    /\ t.rem = 0
    /\ timers' = timers \ {t}
    /\ IF GraceGuard THEN ProcKillKill ELSE UNCHANGED sigVars
    /\ UNCHANGED <<others, o, child, procVars, killed, stalled, stallCount, aborted, pending,
                   calls, outcome, clockVars, histVars>>

\* A close handler that looks at `killed` before `stalled`.
CloseResultKilledFirst ==
    IF killed /\ code # "0"
      THEN [kind |-> "Killed", cause |-> (IF aborted THEN "aborted" ELSE "timeout"),
            code |-> code, elapsed |-> 0, stallCount |-> 0]
    ELSE IF stalled
      THEN [kind |-> "StallError", cause |-> "-", code |-> code,
            elapsed |-> now, stallCount |-> stallCount]
    ELSE IF code # "0"
      THEN [kind |-> "Failed", cause |-> "-", code |-> code, elapsed |-> 0, stallCount |-> 0]
    ELSE [kind |-> "Ok", cause |-> "-", code |-> code, elapsed |-> 0, stallCount |-> 0]

\* What the close handler settles the promise with.
CloseResult ==
    IF stalled
      THEN [kind |-> "StallError", cause |-> "-", code |-> code,
            elapsed |-> now, stallCount |-> stallCount]
    ELSE IF killed /\ code # "0"
      THEN [kind |-> "Killed", cause |-> (IF aborted THEN "aborted" ELSE "timeout"),
            code |-> code, elapsed |-> 0, stallCount |-> 0]
    ELSE IF code # "0"
      THEN [kind |-> "Failed", cause |-> "-", code |-> code, elapsed |-> 0, stallCount |-> 0]
    ELSE [kind |-> "Ok", cause |-> "-", code |-> code, elapsed |-> 0, stallCount |-> 0]

\* proc.on("close"): the child has exited and its pipes are closed.
Close ==
    /\ phase \in {"reaped", "failed"}
    /\ phase' = "closed"
    /\ timers' = ClearOnClose(timers)
    /\ outcome' = Settle(CloseResult)
    /\ atClose' = [done |-> TRUE, killed |-> killed, stallCount |-> stallCount,
                   ncalls |-> Len(calls)]
    /\ UNCHANGED <<others, o, child, code, sigVars, killed, stalled, stallCount, aborted,
                   pending, calls, clockVars, killReqs>>

\* proc.on("error"): the spawn failed.  'close' follows with the error number
\* as the code.
ErrorEvent ==
    /\ phase = "spawnfail"
    /\ phase' = "failed"
    /\ code' = "ENOENT"
    /\ timers' = ClearOnClose(timers)
    /\ outcome' = Settle([kind |-> "SpawnFailed", cause |-> "-", code |-> "-",
                          elapsed |-> 0, stallCount |-> 0])
    /\ UNCHANGED <<others, o, child, sigVars, killed, stalled, stallCount, aborted,
                   pending, calls, clockVars, histVars>>

Next ==
    \/ Tick
    \/ \E s \in {"stdout", "stderr"} : Data(s)
    \/ \E c \in {"0", "1"} : ChildExit(c)
    \/ ChildDies
    \/ Reap
    \/ StallFire
    \/ \E d \in {"wait", "kill", "throw"} : DecisionAnswer(d)
    \/ TimeoutFire
    \/ AbortFire
    \/ \E t \in timers : GraceFire(t)
    \/ Close
    \/ ErrorEvent

Spec == Init /\ [][Next]_vars

\* The event loop runs every timer that is due and every event that is ready;
\* a signal that ends the command does end it; time passes.  Nothing obliges
\* the command to end by itself, to write, the token to fire or the decision
\* handler to answer.
FairSpec ==
    /\ Spec
    /\ WF_vars(Tick)
    /\ WF_vars(TimeoutFire)
    /\ WF_vars(StallFire)
    /\ WF_vars(\E t \in timers : GraceFire(t))
    /\ WF_vars(ChildDies)
    /\ WF_vars(Reap)
    /\ WF_vars(Close)
    /\ WF_vars(ErrorEvent)

\* ------------------------------------------------------------ properties

Settled == outcome.kind # "pending"

\* The call is open: 'close' (or 'error') has not been handled yet.
Open == phase \in {"running", "exited", "reaped"}

\* C1: once the timeout timer has fired, the child gets SIGTERM and, when it
\* is still there 3 s later, SIGKILL; so a call whose timeout fired always
\* settles in the end, also when the child ignores SIGTERM.
C1_TimeoutAlwaysSettles ==
    /\ [][(TimeoutFire /\ phase = "running") => termSent']_vars
    /\ [][(phase = "running" /\ \E t \in timers : t.cause = "timeout" /\ GraceFire(t))
            => killSent']_vars
    /\ Requested("timeout") ~> Settled

\* C2: the token fires while the child runs: the child is terminated (SIGTERM,
\* then SIGKILL after the grace window), the OS process is in the end not
\* running, and the call rejects with the cause tag "aborted".
AbortedMidRun ==
    /\ o.signal = "fresh"
    /\ \E i \in 1..Len(killReqs) : killReqs[i].by = "aborted" /\ killReqs[i].live

C2_AbortTerminates ==
    /\ [][(AbortFire /\ phase = "running") => termSent']_vars
    /\ [][(phase = "running" /\ \E t \in timers : t.cause = "aborted" /\ GraceFire(t))
            => killSent']_vars
    /\ AbortedMidRun ~> (phase # "running" /\ outcome.kind = "Killed"
                         /\ outcome.cause = "aborted")

\* C3: a 'Command killed' rejection names the cause that requested the kill:
\* "timeout" when the timeout timer did, "aborted" when the token did.
C3_CauseNamesRequester ==
    (outcome.kind = "Killed" /\ killReqs[1].live) => outcome.cause = killReqs[1].by

\* C4: a call on which a kill was requested (killed set when 'close' came) is
\* never reported as a success with exit code 0.
C4_KilledNeverOk ==
    (atClose.done /\ atClose.killed) => outcome.kind # "Ok"

C6_FirstStall ==
    /\ (o.onStall /\ o.stallTimeout > 0 /\ noOutput /\ Open /\ now > o.stallTimeout)
          => Len(calls) >= 1
    /\ Len(calls) >= 1
          => (calls[1].stallCount = 1 /\ calls[1].elapsed >= o.stallTimeout)

\* C6 witness: the silent child has run for longer than T and the handler was asked.
C6_Witness ==
    /\ noOutput /\ Open /\ now > o.stallTimeout
    /\ Len(calls) = 1 /\ calls[1].elapsed = o.stallTimeout

\* C7: an answer "wait" re-arms the idle timer for a full stallTimeout and
\* signals nothing; the invocations carry stallCount 1, 2, 3, ... whatever
\* output arrives in between.
C7_WaitRearms ==
    /\ [](\A i \in 1..Len(calls) : calls[i].stallCount = i)
    /\ [][DecisionAnswer("wait") =>
            /\ Timer("stall", "-", o.stallTimeout) \in timers'
            /\ {t \in timers' : t.kind = "grace"} = {t \in timers : t.kind = "grace"}
            /\ UNCHANGED <<sigVars, killed, stalled>>]_vars

\* C7 witness: a silent child, a first stall answered "wait", a second stall.
C7_Witness ==
    /\ noOutput /\ phase = "running" /\ ~killed
    /\ Len(calls) = 2 /\ calls[2].stallCount = 2 /\ pending = 1

\* C8: the idle timer fires with no handler, or the handler throws: the
\* decision is "kill", the child gets SIGTERM (SIGKILL after 3 s when still
\* running) and the call rejects with a StallError.
StallKillByDefault ==
    \E i \in 1..Len(killReqs) :
        /\ killReqs[i].by = "stall"
        /\ killReqs[i].how \in {"default", "throw"}
        /\ killReqs[i].live

C8_DefaultKillRejects ==
    /\ [][((StallFire /\ ~o.onStall) \/ DecisionAnswer("throw"))
            => (stalled' /\ killed' /\ (phase = "running" => termSent'))]_vars
    /\ [][(phase = "running" /\ StallKillByDefault
            /\ \E t \in timers : t.cause = "stall" /\ GraceFire(t))
            => killSent']_vars
    /\ StallKillByDefault ~> (phase # "running" /\ outcome.kind = "StallError")

\* C9: every chunk restarts the idle timer: while no gap between chunks (or
\* between the start and the first chunk) has reached stallTimeout, the timer
\* has not fired and the decision callback has not been invoked.
C9_ChunksKeepQuiet ==
    (o.stallTimeout > 0 /\ ~gapReached) => (stallCount = 0 /\ Len(calls) = 0)

\* C9 witness: the call has run for longer than stallTimeout, kept quiet by chunks.
C9_Witness ==
    /\ o.stallTimeout > 0 /\ o.onStall /\ ~gapReached /\ ~noOutput
    /\ phase = "running" /\ now > o.stallTimeout

\* C10: after 'close' no timeout or stall timer is armed and the decision
\* callback is not invoked again.
C10_NothingAfterClose ==
    atClose.done =>
        /\ ~Armed("timeout")
        /\ ~Armed("stall")
        /\ Len(calls) = atClose.ncalls

\* The decision "kill" of a stall was taken while the child was running.
StallKillTaken == \E i \in 1..Len(killReqs) : killReqs[i].by = "stall" /\ killReqs[i].live

\* C33: once the decision "kill" of a stall has been taken while the child
\* was running, the call, when it settles, rejects with StallError, whatever
\* the exit code is and whether or not the timeout or the token fired too;
\* it is never a success.
C33_StallKillIsStallError ==
    (StallKillTaken /\ Settled) => outcome.kind = "StallError"

C33_Witness ==
    /\ StallKillTaken /\ Settled
    /\ code = "0"
    /\ Requested("timeout")
    /\ outcome.kind = "StallError"

\* C36: at most one decision of a stall is awaited at a time: the idle timer
\* does not ask again, not even after a chunk has restarted it, while an
\* earlier answer is still out.
C36_OneDecisionPending == pending <= 1

\* ================================================================ session
\* Shell.session of src/src/executor/shell.ts: the commands of a plan in one
\* shell process.  The text of the script and of the error message is a
\* sequence of pieces: a piece is a line of the script (or the header or the
\* stderr part of a message), the line breaks are pieces of their own.

\* A session has at most this many commands.
MaxCmds == 3
\* stderr.slice(-500)
StderrTail == 500

\* A command as the shell sees it: the status it ends with, and whether
\* errexit looks at that status.  The shell ignores, under "set -e", a
\* failure of "a && b" that comes from a, of "a || b" inside a longer list,
\* of "! a" and of the condition of if / while / until; the line still ends
\* with a status that is not 0.
Commands == {c \in [status : {"0", "1"}, exempt : BOOLEAN] : c.exempt => c.status = "1"}

SeqsUpTo(S, n) == UNION {[1..k -> S] : k \in 0..n}

Tok(t, i) == [t |-> t, i |-> i]
NL == Tok("nl", 0)

\* lines.join("\n")
RECURSIVE Join(_)
Join(lines) ==
    IF Len(lines) = 0 THEN <<>>
    ELSE IF Len(lines) = 1 THEN <<lines[1]>>
    ELSE <<lines[1], NL>> \o Join(Tail(lines))

\* A loop body that runs the command before it echoes the marker.
StepLinesCmdFirst(i) == <<Tok("assign", i), Tok("cmd", i), Tok("echo", i)>>

\* The loop body: "_envready_step=i", the echo of the step marker "[i/n] cmd",
\* the command itself.
StepLines(i) == <<Tok("assign", i), Tok("echo", i), Tok("cmd", i)>>

\* The lines of the generated script for n commands.
RECURSIVE ScriptLines(_)
ScriptLines(n) ==
    IF n = 0 THEN <<Tok("sete", 0), Tok("assign", 0)>>
    ELSE ScriptLines(n - 1) \o StepLines(n)

\* A session that generates the script for a single command too.
SessionScriptAlways(n) == ScriptLines(n)

\* What session() hands to stream(): the one command as it is, or the script.
SessionScript(n) == IF n = 1 THEN <<Tok("cmd", 1)>> ELSE ScriptLines(n)

\* Whether the promise of stream() goes through the catch handler.
SessionWrapped(n) == n > 1

\* A slice that keeps the whole text.
SliceLastWhole(s, n) == s

\* s.slice(-n) and s.slice(0, n)
SliceLast(s, n) == IF Len(s) <= n THEN s ELSE SubSeq(s, Len(s) - n + 1, Len(s))

\* The number of characters of a piece of the command text, for commands of
\* the lengths ws: "set -e", "_envready_step=i", the echo line
\* "echo '  > [i/n] display'" whose display is the command cut to 80
\* characters, the command itself; a line break is one character.
PieceWidth(p, ws) ==
    CASE p.t = "sete" -> 6
      [] p.t = "assign" -> 16
      [] p.t = "echo" -> 17 + (IF ws[p.i] > 80 THEN 80 ELSE ws[p.i])
      [] p.t = "cmd" -> ws[p.i]
      [] OTHER -> 1

\* A slice that keeps the whole text whatever its length.
SliceFirstWhole(s, n, ws) == s

\* s.slice(0, n) on the characters: the pieces that fit, then the cut piece,
\* left as the fragment Tok("part", kind) that no line break follows.
RECURSIVE SliceFirst(_, _, _)
SliceFirst(s, n, ws) ==
    IF Len(s) = 0 \/ n <= 0 THEN <<>>
    ELSE IF PieceWidth(s[1], ws) <= n
         THEN <<s[1]>> \o SliceFirst(Tail(s), n - PieceWidth(s[1], ws), ws)
         ELSE <<Tok("part", s[1].t)>>

\* Commands of ten characters each.
Short(n) == [i \in 1..n |-> 10]

\* The message of the error stream() rejects with, for the command text cmd
\* (of commands of the lengths ws) and the collected stderr.  The header "Command failed (exit N): " carries
\* the exit code; a code that is not a number gives a header \d+ cannot match.
StreamMessage(r, cmd, stderr, ws) ==
    CASE r.kind = "Failed" ->
           <<IF r.code = "1" THEN Tok("failed", 1) ELSE Tok("failed?", 0)>>
              \o cmd \o <<NL>> \o SliceLast(stderr, StderrTail)
      [] r.kind = "Killed" -> <<Tok("killed", 0)>> \o cmd
      [] r.kind = "StallError" -> <<Tok("stalled", 0)>> \o SliceFirst(cmd, 120, ws)
      [] r.kind = "SpawnFailed" -> <<Tok("spawnfailed", 0)>> \o cmd \o <<NL, Tok("errno", 0)>>
      [] OTHER -> <<>>

\* The first replace of the catch handler, not global:
\*   /Command failed \(exit \d+\): set -e[\s\S]*?\n(?=\S)/ -> "Command failed (exit N): "
\* The match starts at a header that "set -e" follows and ends, being lazy,
\* with the first line break after which a piece other than a line break
\* comes (every such piece starts with a character that is not a space).
FirstReplaceEnds(s, p) ==
    {q \in (p + 2)..(Len(s) - 1) : s[q] = NL /\ s[q + 1] # NL}

FirstReplaceStarts(s) ==
    {p \in 1..(Len(s) - 1) :
        /\ s[p].t = "failed" /\ s[p + 1].t = "sete"
        /\ FirstReplaceEnds(s, p) # {}}

SetMin(S) == CHOOSE x \in S : \A y \in S : x <= y

FirstReplace(s) ==
    IF FirstReplaceStarts(s) = {} THEN s
    ELSE LET p == SetMin(FirstReplaceStarts(s))
             q == SetMin(FirstReplaceEnds(s, p))
         IN SubSeq(s, 1, p) \o SubSeq(s, q + 1, Len(s))

\* s.replace(/X\n/g, "") for X the pieces of kind t.
RECURSIVE Strip(_, _)
Strip(s, t) ==
    IF Len(s) < 2 THEN s
    ELSE IF s[1].t = t /\ s[2] = NL THEN Strip(SubSeq(s, 3, Len(s)), t)
    ELSE <<s[1]>> \o Strip(Tail(s), t)

\* The catch handler: the four replaces on err.message.
Cleaned(msg) == Strip(Strip(Strip(FirstReplace(msg), "sete"), "assign"), "echo")

\* What the promise of session() settles with, given how stream() settled.
SessionResult(wrapped, r, cmd, stderr, ws) ==
    [kind |-> r.kind, code |-> r.code,
     message |-> IF wrapped THEN Cleaned(StreamMessage(r, cmd, stderr, ws))
                 ELSE StreamMessage(r, cmd, stderr, ws)]

NoOptions == [timeout |-> 0, stallTimeout |-> 0, onStall |-> FALSE, signal |-> "none"]

Ev(e, i, st) == [e |-> e, i |-> i, status |-> st]

NoResult == [kind |-> "pending", code |-> "-", message |-> <<>>]

\* session(commands, opts) has returned: with no command it has resolved at
\* once and nothing was spawned; else stream() runs the command or the script
\* (here with no timeout, no stall detection and no token).
SessInit ==
    /\ cli = Idle
    /\ \E cmds \in SeqsUpTo(Commands, MaxCmds) :
        /\ sess = [pc |-> IF Len(cmds) = 0 THEN "done" ELSE "run",
                   commands |-> cmds,
                   script |-> SessionScript(Len(cmds)),
                   wrapped |-> SessionWrapped(Len(cmds)),
                   line |-> 1, errexit |-> FALSE, step |-> 0, busy |-> FALSE,
                   log |-> <<>>, stderr |-> <<>>,
                   result |-> IF Len(cmds) = 0
                              THEN [kind |-> "Ok", code |-> "0", message |-> <<>>]
                              ELSE NoResult]
        /\ phase = (IF Len(cmds) = 0 THEN "none" ELSE "running")
    /\ o = NoOptions
    /\ child = [ignoresTerm |-> FALSE]
    /\ code = "none"
    /\ killSent = FALSE /\ termSent = FALSE /\ procKilled = FALSE
    /\ killed = FALSE /\ stalled = FALSE /\ stallCount = 0
    /\ killReqs = <<>>
    /\ aborted = FALSE
    /\ timers = {}
    /\ pending = 0
    /\ calls = <<>>
    /\ outcome = Pending
    /\ now = 0 /\ idle = 0 /\ noOutput = TRUE /\ gapReached = FALSE
    /\ atClose = [done |-> FALSE, killed |-> FALSE, stallCount |-> 0, ncalls |-> 0]
    /\ det = Idle
    /\ pkg = Idle
    /\ io = Idle
    /\ duo = Idle

streamVars == <<o, child, phase, code, termSent, killSent, procKilled, killed, stalled,
                stallCount, timers, aborted, pending, calls, outcome, now, idle,
                noOutput, gapReached, killReqs, atClose>>

\* The shell runs the next line of its script: "set -e" turns errexit on, an
\* assignment sets the step variable, the echo writes the marker of a step,
\* a command starts.
ShLine ==
    /\ sess.pc = "run" /\ phase = "running" /\ ~sess.busy
    /\ sess.line <= Len(sess.script)
    /\ LET l == sess.script[sess.line] IN
       sess' = CASE l.t = "sete"   -> [sess EXCEPT !.errexit = TRUE, !.line = @ + 1]
                 [] l.t = "assign" -> [sess EXCEPT !.step = l.i, !.line = @ + 1]
                 [] l.t = "echo"   -> [sess EXCEPT !.log = Append(@, Ev("marker", l.i, "0")),
                                                   !.line = @ + 1]
                 [] l.t = "cmd"    -> [sess EXCEPT !.log = Append(@, Ev("start", l.i, "0")),
                                                   !.busy = TRUE]
    /\ UNCHANGED <<streamVars, det, pkg, io, duo, cli>>

\* Whether the shell exits after a line that ended with status st: errexit is
\* on and looks at the failure, or the script is at its end.
ShellExits(st, exempt, errexit, last) == (st # "0" /\ errexit /\ ~exempt) \/ last

\* The running command ends.  A failing command has written to stderr.  The
\* shell goes on with the next line, or exits with the status of the command.
CmdEnd ==
    /\ sess.pc = "run" /\ phase = "running" /\ sess.busy
    /\ LET i == sess.script[sess.line].i
           c == sess.commands[i]
       IN /\ sess' = [sess EXCEPT !.busy = FALSE, !.line = @ + 1,
                                  !.log = Append(@, Ev("end", i, c.status)),
                                  !.stderr = IF c.status # "0"
                                             THEN Append(@, Tok("err", i)) ELSE @]
          /\ IF ShellExits(c.status, c.exempt, sess.errexit, sess.line = Len(sess.script))
             THEN phase' = "exited" /\ code' = c.status
             ELSE UNCHANGED <<phase, code>>
    /\ UNCHANGED <<o, child, sigVars, killed, stalled, stallCount, timers, aborted,
                   pending, calls, outcome, clockVars, histVars, det, pkg, io, duo, cli>>

\* The promise session() returned settles: the promise of stream() itself, or
\* behind the catch handler that rewrites the message of a rejection.
SessionSettle ==
    /\ sess.pc = "run" /\ outcome.kind # "pending"
    /\ sess' = [sess EXCEPT !.pc = "done",
                            !.result = SessionResult(sess.wrapped, outcome,
                                                     Join(sess.script), sess.stderr,
                                                     Short(Len(sess.commands)))]
    /\ UNCHANGED <<streamVars, det, pkg, io, duo, cli>>

SessNext ==
    \/ ShLine
    \/ CmdEnd
    \/ Reap
    \/ Close
    \/ SessionSettle

SessSpec == SessInit /\ [][SessNext]_vars

\* ----------------------------------------------------- session properties

Multi == Len(sess.commands) >= 2

\* The positions of the log at which event e of step i stands.
At(e, i) == {p \in 1..Len(sess.log) : sess.log[p].e = e /\ sess.log[p].i = i}

Steps == 1..Len(sess.commands)

\* Step i ended with status 0.
EndedOk(i) == \E p \in At("end", i) : sess.log[p].status = "0"

\* C11: in a session of several commands the commands that start are, in
\* order, a prefix of the list; step N+1 starts only after step N has ended
\* with status 0; no step starts after a step that ended with another
\* status; and the session succeeds exactly when every step ended with 0.
C11_FailFastOrder ==
    Multi =>
        /\ \A i \in Steps : At("start", i) # {} =>
              \A j \in 1..(i - 1) : \E p \in At("start", j) : \A q \in At("start", i) : p < q
        /\ \A i \in Steps : \A q \in At("start", i) :
              i > 1 => \E p \in At("end", i - 1) : p < q /\ sess.log[p].status = "0"
        /\ \A p \in 1..Len(sess.log) :
              (sess.log[p].e = "end" /\ sess.log[p].status # "0")
                  => \A q \in (p + 1)..Len(sess.log) : sess.log[q].e # "start"
        /\ sess.pc = "done" => (sess.result.kind = "Ok" <=> \A i \in Steps : EndedOk(i))

\* The session failed at step k: the script ended with the failure of k.
FailedAt(k) ==
    /\ Multi /\ sess.pc = "done" /\ sess.result.kind = "Failed"
    /\ sess.log[Len(sess.log)] = Ev("end", k, "1")
    /\ \A i \in Steps : ~sess.commands[i].exempt

Has(msg, piece) == \E p \in 1..Len(msg) : msg[p] = piece

\* C12: when a session of several commands fails at step k, the message of
\* the error holds the text of command k and the tail of its stderr, holds no
\* markup of the script ("set -e", the step assignments, the marker echoes)
\* and holds the text of no other command.
C12_OnlyFailingCommand ==
    \A k \in Steps : FailedAt(k) =>
        /\ Has(sess.result.message, Tok("cmd", k))
        /\ Has(sess.result.message, Tok("err", k))
        /\ \A p \in 1..Len(sess.result.message) :
              sess.result.message[p].t \notin {"sete", "assign", "echo"}
        /\ \A j \in Steps \ {k} : ~Has(sess.result.message, Tok("cmd", j))

\* C13: a session of one command is the call of stream() on that command: the
\* text handed to the shell is the command, with no preamble and no marker,
\* and the session settles as stream() does, message included.
C13_SingleIsStream ==
    Len(sess.commands) = 1 =>
        /\ Join(sess.script) = <<Tok("cmd", 1)>>
        /\ ~sess.errexit
        /\ At("marker", 1) = {}
        /\ sess.pc = "done" =>
              /\ sess.result.kind = outcome.kind
              /\ sess.result.code = outcome.code
              /\ sess.result.message
                    = StreamMessage(outcome, <<Tok("cmd", 1)>>, sess.stderr, Short(1))

\* C13 witness: a session of one command that failed.
C13_Witness ==
    /\ Len(sess.commands) = 1 /\ sess.pc = "done"
    /\ sess.result.kind = "Failed"
    /\ sess.result.message = <<Tok("failed", 1), Tok("cmd", 1), NL, Tok("err", 1)>>

\* C14: in the generated script the marker of step i is written before
\* command i starts and after command i-1 has ended; the markers come in
\* increasing order, one for each step that starts.
C14_MarkerBeforeStep ==
    Multi =>
        /\ \A i \in Steps : \A q \in At("start", i) :
              \E m \in At("marker", i) :
                  /\ m < q
                  /\ i > 1 => \E p \in At("end", i - 1) : p < m
        /\ \A i \in Steps : At("start", i) # {} => Cardinality(At("marker", i)) = 1
        /\ \A i, j \in Steps : \A p \in At("marker", i) : \A q \in At("marker", j) :
              i < j => p < q

\* C14 witness: three steps have started, each after its marker.
C14_Witness ==
    /\ Len(sess.commands) = 3
    /\ \A i \in Steps : At("start", i) # {} /\ At("marker", i) # {}

\* ================================================================= detect
\* Package.detect of src/src/executor/package.ts.  A filename is a sequence
\* of characters, a character a string; "U+0131" (dotless i) and "U+017F"
\* (long s) are the two letters outside ASCII that the names here use.

\* A filename is the stem "app" and at most this many of the pieces below.
MaxPieces == 2
\* detect is called this often on a filename.
MaxCalls == 2

Format == {"dmg", "pkg", "zip", "tar.gz", "tar.bz2", "tar.xz", "deb", "rpm",
           "appimage", "exe", "msi", "snap", "flatpak", "binary", "unknown"}

UpperAlpha == <<"A", "B", "C", "D", "E", "F", "G", "H", "I", "J", "K", "L", "M",
               "N", "O", "P", "Q", "R", "S", "T", "U", "V", "W", "X", "Y", "Z">>
LowerAlpha == <<"a", "b", "c", "d", "e", "f", "g", "h", "i", "j", "k", "l", "m",
               "n", "o", "p", "q", "r", "s", "t", "u", "v", "w", "x", "y", "z">>

\* String.prototype.toLowerCase, character by character: A-Z go to a-z, the
\* other characters used here stay (dotless i and long s are lower case).
Alphabet ==
    {UpperAlpha[i] : i \in 1..26} \cup {LowerAlpha[i] : i \in 1..26}
        \cup {".", "2", "U+0131", "U+017F"}
        \cup {"/", "-", "+", "?", "=", ";", " ", "%20", "%", "1", "3"}

LowerTable ==
    [c \in Alphabet |->
        IF \E i \in 1..26 : UpperAlpha[i] = c
        THEN LowerAlpha[CHOOSE i \in 1..26 : UpperAlpha[i] = c]
        ELSE c]

LowerChar(c) == LowerTable[c]

\* A toLowerCase that leaves the name as it is.
ToLowerCaseNone(s) == s

ToLowerCase(s) == [i \in 1..Len(s) |-> LowerChar(s[i])]

\* An endsWith that looks for the suffix anywhere in the name.
EndsWithAnywhere(s, suf) ==
    \E k \in 0..(Len(s) - Len(suf)) : SubSeq(s, k + 1, k + Len(suf)) = suf

\* String.prototype.endsWith
EndsWith(s, suf) ==
    /\ Len(suf) <= Len(s)
    /\ SubSeq(s, Len(s) - Len(suf) + 1, Len(s)) = suf

detect(filename) ==
    LET lower == ToLowerCase(filename) IN
    IF EndsWith(lower, <<".", "d", "m", "g">>) THEN "dmg"
    ELSE IF 
            \/ EndsWith(lower, <<".", "p", "k", "g">>)
            \/ EndsWith(lower, <<".", "m", "p", "k", "g">>)
         THEN "pkg"
    ELSE IF EndsWith(lower, <<".", "z", "i", "p">>) THEN "zip"
    ELSE IF 
            \/ EndsWith(lower, <<".", "t", "a", "r", ".", "g", "z">>)
            \/ EndsWith(lower, <<".", "t", "g", "z">>)
         THEN "tar.gz"
    ELSE IF 
            \/ EndsWith(lower, <<".", "t", "a", "r", ".", "b", "z", "2">>)
            \/ EndsWith(lower, <<".", "t", "b", "z", "2">>)
         THEN "tar.bz2"
    ELSE IF 
            \/ EndsWith(lower, <<".", "t", "a", "r", ".", "x", "z">>)
            \/ EndsWith(lower, <<".", "t", "x", "z">>)
         THEN "tar.xz"
    ELSE IF EndsWith(lower, <<".", "d", "e", "b">>) THEN "deb"
    ELSE IF EndsWith(lower, <<".", "r", "p", "m">>) THEN "rpm"
    ELSE IF EndsWith(lower, <<".", "a", "p", "p", "i", "m", "a", "g", "e">>) THEN "appimage"
    ELSE IF EndsWith(lower, <<".", "e", "x", "e">>) THEN "exe"
    ELSE IF EndsWith(lower, <<".", "m", "s", "i">>) THEN "msi"
    ELSE IF EndsWith(lower, <<".", "s", "n", "a", "p">>) THEN "snap"
    ELSE IF 
            \/ EndsWith(lower, <<".", "f", "l", "a", "t", "p", "a", "k">>)
            \/ EndsWith(lower, <<".", "f", "l", "a", "t", "p", "a", "k", "r", "e", "f">>)
         THEN "flatpak"
    ELSE "unknown"

\* The pieces of the filenames, in lower case.
Pieces == {
    <<".", "d", "m", "g">>, <<".", "p", "k", "g">>,
    <<".", "m", "p", "k", "g">>, <<".", "z", "i", "p">>,
    <<".", "t", "a", "r">>, <<".", "g", "z">>,
    <<".", "t", "g", "z">>, <<".", "b", "z", "2">>,
    <<".", "t", "b", "z", "2">>, <<".", "x", "z">>,
    <<".", "t", "x", "z">>, <<".", "d", "e", "b">>,
    <<".", "r", "p", "m">>, <<".", "a", "p", "p", "i", "m", "a", "g", "e">>,
    <<".", "e", "x", "e">>, <<".", "m", "s", "i">>,
    <<".", "s", "n", "a", "p">>, <<".", "f", "l", "a", "t", "p", "a", "k">>,
    <<".", "f", "l", "a", "t", "p", "a", "k", "r", "e", "f">>, <<".", "t", "x", "t">>}

Stem == <<"a", "p", "p">>

RECURSIVE Chains(_)
Chains(n) ==
    IF n = 0 THEN {<<>>}
    ELSE Chains(n - 1) \cup {c \o p : c \in Chains(n - 1), p \in Pieces}

\* The ways a name is written: in lower case, in upper case, every second
\* character in upper case, and with dotless i for i and long s for s.
UpperTable ==
    [c \in Alphabet |->
        IF \E i \in 1..26 : LowerAlpha[i] = c
        THEN UpperAlpha[CHOOSE i \in 1..26 : LowerAlpha[i] = c]
        ELSE c]

UpperOf(c) == UpperTable[c]

Written(s, how) ==
    [i \in 1..Len(s) |->
        CASE how = "upper" -> UpperOf(s[i])
          [] how = "mixed" -> IF i % 2 = 0 THEN UpperOf(s[i]) ELSE s[i]
          [] how = "special" -> IF s[i] = "i" THEN "U+0131"
                                ELSE IF s[i] = "s" THEN "U+017F" ELSE s[i]
          [] OTHER -> s[i]]

Filenames ==
    {Written(Stem \o c, how) : c \in Chains(MaxPieces),
                               how \in {"lower", "upper", "mixed", "special"}}

streamIdle ==
    /\ o = NoOptions
    /\ child = [ignoresTerm |-> FALSE]
    /\ phase = "none"
    /\ code = "none"
    /\ killSent = FALSE /\ termSent = FALSE /\ procKilled = FALSE
    /\ killed = FALSE /\ stalled = FALSE /\ stallCount = 0
    /\ killReqs = <<>>
    /\ aborted = FALSE
    /\ timers = {}
    /\ pending = 0
    /\ calls = <<>>
    /\ outcome = Pending
    /\ now = 0 /\ idle = 0 /\ noOutput = TRUE /\ gapReached = FALSE
    /\ atClose = [done |-> FALSE, killed |-> FALSE, stallCount |-> 0, ncalls |-> 0]

\* A filename, and no call of detect on it yet.
DetInit ==
    /\ cli = Idle
    /\ det \in [pc : {"call"}, filename : Filenames, results : {<<>>}]
    /\ sess = Idle
    /\ pkg = Idle
    /\ io = Idle
    /\ duo = Idle
    /\ streamIdle

\* A call of detect(filename): the format it returns is recorded.
DetectCall ==
    /\ det.pc = "call"
    /\ Len(det.results) < MaxCalls
    /\ det' = [det EXCEPT !.results = Append(@, detect(det.filename))]
    /\ UNCHANGED <<streamVars, sess, pkg, io, duo, cli>>

DetNext == DetectCall

DetSpec == DetInit /\ [][DetNext]_vars

\* ------------------------------------------------------ detect properties

\* uppercase(f) and lowercase(f): toUpperCase and toLowerCase.  Dotless i
\* and long s are lower-case letters whose upper case is I and S.
Uppercase(s) ==
    [i \in 1..Len(s) |->
        IF s[i] = "U+0131" THEN "I"
        ELSE IF s[i] = "U+017F" THEN "S"
        ELSE UpperOf(s[i])]

Lowercase(s) == [i \in 1..Len(s) |-> LowerChar(s[i])]

Ascii(s) == \A i \in 1..Len(s) : s[i] \notin {"U+0131", "U+017F"}

Called == Len(det.results) >= 1

\* C15 as stated: for every filename f, detect(f), detect(uppercase(f)) and
\* detect(lowercase(f)) are the same format, and so is every repeated call.
C15_AnyNameAnyCase ==
    Called =>
        /\ \A i \in 1..Len(det.results) : det.results[i] = det.results[1]
        /\ detect(Uppercase(det.filename)) = det.results[1]
        /\ detect(Lowercase(det.filename)) = det.results[1]

\* C15 amended: repeated calls of detect(f) return the same format, which is
\* the format of lowercase(f) for every f, and the format of uppercase(f) for
\* every f of ASCII characters.
C15_CaseInsensitive ==
    Called =>
        /\ \A i \in 1..Len(det.results) : det.results[i] = det.results[1]
        /\ detect(Lowercase(det.filename)) = det.results[1]
        /\ Ascii(det.filename) => detect(Uppercase(det.filename)) = det.results[1]

\* C15 witness: a name in mixed case, detected twice as a known format.
C15_Witness ==
    /\ Len(det.results) = 2 /\ det.results[1] = "dmg"
    /\ det.filename = <<"a", "P", "p", ".", "d", "M", "g">>

IsSuffix(suf, s) ==
    /\ Len(suf) <= Len(s)
    /\ \A i \in 1..Len(suf) : s[Len(s) - Len(suf) + i] = suf[i]

\* The suffixes of the formats.
Recognised ==
    {<<".", "d", "m", "g">>, <<".", "p", "k", "g">>, <<".", "m", "p", "k", "g">>,
     <<".", "z", "i", "p">>, <<".", "t", "a", "r", ".", "g", "z">>, <<".", "t", "g", "z">>,
     <<".", "t", "a", "r", ".", "b", "z", "2">>, <<".", "t", "b", "z", "2">>,
     <<".", "t", "a", "r", ".", "x", "z">>, <<".", "t", "x", "z">>,
     <<".", "d", "e", "b">>, <<".", "r", "p", "m">>,
     <<".", "a", "p", "p", "i", "m", "a", "g", "e">>, <<".", "e", "x", "e">>,
     <<".", "m", "s", "i">>, <<".", "s", "n", "a", "p">>,
     <<".", "f", "l", "a", "t", "p", "a", "k">>,
     <<".", "f", "l", "a", "t", "p", "a", "k", "r", "e", "f">>}

\* C16: detect returns, for every filename, one member of Format; a name that
\* ends in ".tar.gz", ".tar.bz2" or ".tar.xz" gets the compound format; the
\* result is "unknown" exactly when the name ends in no suffix of a format.
C16_TotalCompound ==
    Called =>
        /\ det.results[1] \in Format
        /\ IsSuffix(<<".", "t", "a", "r", ".", "g", "z">>, Lowercase(det.filename))
              => det.results[1] = "tar.gz"
        /\ IsSuffix(<<".", "t", "a", "r", ".", "b", "z", "2">>, Lowercase(det.filename))
              => det.results[1] = "tar.bz2"
        /\ IsSuffix(<<".", "t", "a", "r", ".", "x", "z">>, Lowercase(det.filename))
              => det.results[1] = "tar.xz"
        /\ det.results[1] = "unknown"
              <=> ~\E suf \in Recognised : IsSuffix(suf, Lowercase(det.filename))

\* C16 witness: "app.TAR.GZ" was detected as tar.gz.
C16_Witness ==
    /\ Called /\ det.results[1] = "tar.gz"
    /\ det.filename = <<"A", "P", "P", ".", "T", "A", "R", ".", "G", "Z">>

\* =============================================================== download
\* Package.download of src/src/executor/package.ts: the name of the file is
\* resolved (filename, URL, header probe), the file is fetched, and a name
\* that is still unknown is classified from the content.  Header values,
\* URLs and MIME types are sequences of characters; "%20" is the escape of a
\* space and "%" an escape that is cut short.

Download == <<"d", "o", "w", "n", "l", "o", "a", "d">>

\* s.split(c).pop(): what follows the last c.
RECURSIVE AfterLast(_, _)
AfterLast(s, c) ==
    IF Len(s) = 0 THEN <<>>
    ELSE IF s[Len(s)] = c THEN <<>>
    ELSE Append(AfterLast(SubSeq(s, 1, Len(s) - 1), c), s[Len(s)])

\* s.split(c)[0]: what precedes the first c.
RECURSIVE BeforeFirst(_, _)
BeforeFirst(s, c) ==
    IF Len(s) = 0 THEN <<>>
    ELSE IF s[1] = c THEN <<>>
    ELSE <<s[1]>> \o BeforeFirst(Tail(s), c)

\* filename || url.split("/").pop() || "download"
InitialName(url, filename) ==
    IF filename # <<>> THEN filename
    ELSE IF AfterLast(url, "/") # <<>> THEN AfterLast(url, "/")
    ELSE Download

\* decodeURIComponent throws on an escape that is cut short.
Malformed(s) == \E i \in 1..Len(s) : s[i] = "%"

decodeURIComponent(s) == [i \in 1..Len(s) |-> IF s[i] = "%20" THEN " " ELSE s[i]]

\* decoded.replace(/\s+/g, "-")
RECURSIVE ReplaceSpaces(_)
ReplaceSpaces(s) ==
    IF Len(s) = 0 THEN <<>>
    ELSE IF s[1] = " "
      THEN IF Len(s) > 1 /\ s[2] = " " THEN ReplaceSpaces(Tail(s))
           ELSE <<"-">> \o ReplaceSpaces(Tail(s))
    ELSE <<s[1]>> \o ReplaceSpaces(Tail(s))

\* The header lines of "curl -sIL", the responses of the redirect chain one
\* after the other.
Header(n, v) == [name |-> n, value |-> v]

Lines(hs, n) == {i \in 1..Len(hs) : hs[i].name = n}

\* rawHeaders.match(/name: .../i): the first line of that name; "" when none.
FirstValue(hs, n) ==
    IF Lines(hs, n) = {} THEN <<>>
    ELSE hs[CHOOSE i \in Lines(hs, n) : \A j \in Lines(hs, n) : i <= j].value

\* rawHeaders.match(/location: .../gi), the last match; "" when none.
LastValue(hs, n) ==
    IF Lines(hs, n) = {} THEN <<>>
    ELSE hs[CHOOSE i \in Lines(hs, n) : \A j \in Lines(hs, n) : i >= j].value

\* finalUrl.split("/").pop()?.split("?")[0] || ""
UrlFilename(finalUrl) == BeforeFirst(AfterLast(finalUrl, "/"), "?")

\* The map of contentTypeToExt, type and extension.
ExtMap == {
    <<<<"a", "p", "p", "l", "i", "c", "a", "t", "i", "o", "n", "/", "x", "-", "a", "p", "p", "l", "e", "-", "d", "i", "s", "k", "i", "m", "a", "g", "e">>,
      <<".", "d", "m", "g">>>>,
    <<<<"a", "p", "p", "l", "i", "c", "a", "t", "i", "o", "n", "/", "x", "-", "d", "i", "s", "k", "c", "o", "p", "y">>,
      <<".", "d", "m", "g">>>>,
    <<<<"a", "p", "p", "l", "i", "c", "a", "t", "i", "o", "n", "/", "v", "n", "d", ".", "a", "p", "p", "l", "e", ".", "i", "n", "s", "t", "a", "l", "l", "e", "r", "+", "x", "m", "l">>,
      <<".", "p", "k", "g">>>>,
    <<<<"a", "p", "p", "l", "i", "c", "a", "t", "i", "o", "n", "/", "z", "i", "p">>,
      <<".", "z", "i", "p">>>>,
    <<<<"a", "p", "p", "l", "i", "c", "a", "t", "i", "o", "n", "/", "x", "-", "z", "i", "p", "-", "c", "o", "m", "p", "r", "e", "s", "s", "e", "d">>,
      <<".", "z", "i", "p">>>>,
    <<<<"a", "p", "p", "l", "i", "c", "a", "t", "i", "o", "n", "/", "g", "z", "i", "p">>,
      <<".", "t", "a", "r", ".", "g", "z">>>>,
    <<<<"a", "p", "p", "l", "i", "c", "a", "t", "i", "o", "n", "/", "x", "-", "g", "z", "i", "p">>,
      <<".", "t", "a", "r", ".", "g", "z">>>>,
    <<<<"a", "p", "p", "l", "i", "c", "a", "t", "i", "o", "n", "/", "x", "-", "t", "a", "r">>,
      <<".", "t", "a", "r", ".", "g", "z">>>>,
    <<<<"a", "p", "p", "l", "i", "c", "a", "t", "i", "o", "n", "/", "x", "-", "b", "z", "i", "p", "2">>,
      <<".", "t", "a", "r", ".", "b", "z", "2">>>>,
    <<<<"a", "p", "p", "l", "i", "c", "a", "t", "i", "o", "n", "/", "x", "-", "x", "z">>,
      <<".", "t", "a", "r", ".", "x", "z">>>>,
    <<<<"a", "p", "p", "l", "i", "c", "a", "t", "i", "o", "n", "/", "v", "n", "d", ".", "d", "e", "b", "i", "a", "n", ".", "b", "i", "n", "a", "r", "y", "-", "p", "a", "c", "k", "a", "g", "e">>,
      <<".", "d", "e", "b">>>>,
    <<<<"a", "p", "p", "l", "i", "c", "a", "t", "i", "o", "n", "/", "x", "-", "r", "p", "m">>,
      <<".", "r", "p", "m">>>>,
    <<<<"a", "p", "p", "l", "i", "c", "a", "t", "i", "o", "n", "/", "x", "-", "m", "s", "i">>,
      <<".", "m", "s", "i">>>>,
    <<<<"a", "p", "p", "l", "i", "c", "a", "t", "i", "o", "n", "/", "x", "-", "m", "s", "d", "o", "s", "-", "p", "r", "o", "g", "r", "a", "m">>,
      <<".", "e", "x", "e">>>>,
    <<<<"a", "p", "p", "l", "i", "c", "a", "t", "i", "o", "n", "/", "x", "-", "e", "x", "e", "c", "u", "t", "a", "b", "l", "e">>,
      <<".", "A", "p", "p", "I", "m", "a", "g", "e">>>>,
    <<<<"a", "p", "p", "l", "i", "c", "a", "t", "i", "o", "n", "/", "o", "c", "t", "e", "t", "-", "s", "t", "r", "e", "a", "m">>,
      <<>>>>}

\* contentTypeToExt: the type in lower case is looked up; no entry, or the
\* empty extension of "application/octet-stream", gives null (here "").
contentTypeToExt(ct) ==
    LET type == ToLowerCase(BeforeFirst(ct, ";"))
    IN IF \E e \in ExtMap : e[1] = type
       THEN (CHOOSE e \in ExtMap : e[1] = type)[2]
       ELSE <<>>

\* String.prototype.includes
Includes(s, sub) ==
    \E k \in 0..(Len(s) - Len(sub)) : SubSeq(s, k + 1, k + Len(sub)) = sub

\* detectFromMagic on the MIME type "file --brief --mime-type" prints; "" when
\* the command failed.
detectFromMagic(mime) ==
    IF 
            \/ Includes(mime, <<"a", "p", "p", "l", "e", "-", "d", "i", "s", "k", "i", "m", "a", "g", "e">>)
            \/ Includes(mime, <<"x", "-", "d", "i", "s", "k", "c", "o", "p", "y">>)
         THEN "dmg"
    ELSE IF Includes(mime, <<"z", "i", "p">>) THEN "zip"
    ELSE IF 
            \/ Includes(mime, <<"g", "z", "i", "p">>)
            \/ Includes(mime, <<"x", "-", "t", "a", "r">>)
         THEN "tar.gz"
    ELSE IF Includes(mime, <<"b", "z", "i", "p", "2">>) THEN "tar.bz2"
    ELSE IF Includes(mime, <<"x", "-", "x", "z">>) THEN "tar.xz"
    ELSE IF Includes(mime, <<"d", "e", "b", "i", "a", "n">>) THEN "deb"
    ELSE IF Includes(mime, <<"r", "p", "m">>) THEN "rpm"
    ELSE IF Includes(mime, <<"x", "-", "m", "s", "i">>) THEN "msi"
    ELSE IF 
            \/ Includes(mime, <<"x", "-", "e", "x", "e", "c", "u", "t", "a", "b", "l", "e">>)
            \/ Includes(mime, <<"x", "-", "p", "i", "e", "-", "e", "x", "e", "c", "u", "t", "a", "b", "l", "e">>)
         THEN "binary"
    ELSE "unknown"

\* What "file" says of a content.
MimeOf(content) ==
    CASE content = "gzip" -> <<"a", "p", "p", "l", "i", "c", "a", "t", "i", "o", "n", "/", "g", "z", "i", "p">>
      [] content = "zip" -> <<"a", "p", "p", "l", "i", "c", "a", "t", "i", "o", "n", "/", "z", "i", "p">>
      [] content = "elf" -> <<"a", "p", "p", "l", "i", "c", "a", "t", "i", "o", "n", "/", "x", "-", "e", "x", "e", "c", "u", "t", "a", "b", "l", "e">>
      [] OTHER -> <<"t", "e", "x", "t", "/", "p", "l", "a", "i", "n">>

\* ---- the inputs of a call

Urls == {<<"h", "/", "d", "l", "/", "a", "p", "p", ".", "d", "m", "g">>,
         <<"h", "/", "d", "l", "/", "l", "a", "t", "e", "s", "t">>,
         <<"h", "/", "d", "l", "/">>}

Hints == {<<>>, <<"t", "o", "o", "l", ".", "p", "k", "g">>}

\* Content-Disposition filenames: none, a known format, one with an escaped
\* space, no known format, a broken escape.
Dispositions == {<<>>, <<"a", "p", "p", ".", "d", "m", "g">>,
                 <<"m", "y", "%20", "a", "p", "p", ".", "z", "i", "p">>,
                 <<"r", "e", "a", "d", "m", "e">>,
                 <<"b", "a", "d", "%", ".", "d", "m", "g">>}

\* The Content-Type of the final response; "" is no such header.
ContentTypes == {<<>>, <<"a", "p", "p", "l", "i", "c", "a", "t", "i", "o", "n", "/", "g", "z", "i", "p">>,
                 <<"A", "p", "p", "l", "i", "c", "a", "t", "i", "o", "n", "/", "X", "-", "G", "z", "i", "p", ";", "q">>,
                 <<"a", "p", "p", "l", "i", "c", "a", "t", "i", "o", "n", "/", "o", "c", "t", "e", "t", "-", "s", "t", "r", "e", "a", "m">>,
                 <<"a", "p", "p", "l", "i", "c", "a", "t", "i", "o", "n", "/", "z", "i", "p">>}

TextHtml == <<"t", "e", "x", "t", "/", "h", "t", "m", "l">>

\* A redirect in front of the final response: its Location, with or without
\* a filename of a known format, and its own Content-Type or none.
Redirects ==
    {<<>>} \cup
    {<<Header("location", l)>> : l \in {<<"h", "/", "c", "d", "n", "/", "a", "p", "p", ".", "d", "e", "b", "?", "s", "i", "g", "=", "1">>,
                                        <<"h", "/", "c", "d", "n", "/", "a", "b", "c", "1", "2", "3">>}}
    \cup
    {<<Header("content-type", TextHtml), Header("location", l)>> :
        l \in {<<"h", "/", "c", "d", "n", "/", "a", "p", "p", ".", "d", "e", "b", "?", "s", "i", "g", "=", "1">>,
               <<"h", "/", "c", "d", "n", "/", "a", "b", "c", "1", "2", "3">>}}

FinalHeaders(ct, cd) ==
    (IF ct = <<>> THEN <<>> ELSE <<Header("content-type", ct)>>)
    \o (IF cd = <<>> THEN <<>> ELSE <<Header("content-disposition", cd)>>)

Contents == {"gzip", "zip", "text"}

\* ---- the call

\* A guard that lets a strategy run whatever the name is by then.
StillUnknownAlways(name) == TRUE

\* if (detect(fname) === "unknown")
StillUnknown(name) == detect(name) = "unknown"

\* The capture ([^\s;\n]+) of a header value: up to the first ";".
Capture(v) == BeforeFirst(v, ";")

\* A strategy that ran: which, the name before and after, whether it threw.
Tried(s, before, after, threw) ==
    [s |-> s, before |-> before, after |-> after, threw |-> threw]

\* download(url, filename) is called.  The environment of the call: whether
\* the probe "curl -sIL" fails, the headers it prints, whether the fetch
\* leaves a file, what the file holds, whether "file" fails on it.
DlInit ==
    /\ cli = Idle
    /\ \E url \in Urls, hint \in Hints, rd \in Redirects, ct \in ContentTypes,
          cd \in Dispositions, content \in Contents, hf, ok \in BOOLEAN :
          pkg = [pc |-> "begin", url |-> url, hint |-> hint,
                 headFails |-> hf, headers |-> rd \o FinalHeaders(ct, cd),
                 fetchOk |-> ok, content |-> content,
                 initial |-> <<>>, fname |-> <<>>, probed |-> FALSE, trace |-> <<>>,
                 format |-> "none", magic |-> "none", dir |-> FALSE, files |-> {}]
    /\ sess = Idle
    /\ det = Idle
    /\ io = Idle
    /\ duo = Idle
    /\ streamIdle

\* mkdirSync(DOWNLOAD_DIR); the first name; the probe is for a name of no
\* known format only.
DownloadBegin ==
    /\ pkg.pc = "begin"
    /\ LET name == InitialName(pkg.url, pkg.hint) IN
       pkg' = [pkg EXCEPT !.dir = TRUE, !.initial = name, !.fname = name,
                          !.pc = IF detect(name) = "unknown" THEN "head" ELSE "fetch"]
    /\ UNCHANGED <<streamVars, sess, det, io, duo, cli>>

\* await Shell.exec(`curl -sIL "${url}"`): a failure goes to the catch, which
\* goes on with the name as it is.
HeadProbe ==
    /\ pkg.pc = "head"
    /\ pkg' = [pkg EXCEPT !.probed = TRUE,
                          !.pc = IF pkg.headFails THEN "fetch" ELSE "s1"]
    /\ UNCHANGED <<streamVars, sess, det, io, duo, cli>>

\* Strategy 1: the filename of Content-Disposition, decoded; taken when it
\* has a known format.  decodeURIComponent may throw: the catch around the
\* three strategies then goes on to the fetch.
Strategy1 ==
    /\ pkg.pc = "s1"
    /\ LET disp == Capture(FirstValue(pkg.headers, "content-disposition"))
           decoded == decodeURIComponent(disp)
           after == IF disp # <<>> /\ detect(decoded) # "unknown"
                    THEN ReplaceSpaces(decoded) ELSE pkg.fname
       IN IF disp # <<>> /\ Malformed(disp)
          THEN pkg' = [pkg EXCEPT !.pc = "fetch",
                         !.trace = Append(@, Tried("disposition", pkg.fname, pkg.fname, TRUE))]
          ELSE pkg' = [pkg EXCEPT !.pc = "s2", !.fname = after,
                         !.trace = Append(@, Tried("disposition", pkg.fname, after, FALSE))]
    /\ UNCHANGED <<streamVars, sess, det, io, duo, cli>>

\* Strategy 2: the last path segment of the last Location, without its query.
Strategy2 ==
    /\ pkg.pc = "s2"
    /\ LET urlFilename == UrlFilename(LastValue(pkg.headers, "location"))
           after == IF detect(urlFilename) # "unknown" THEN urlFilename ELSE pkg.fname
       IN IF StillUnknown(pkg.fname)
          THEN pkg' = [pkg EXCEPT !.pc = "s3", !.fname = after,
                         !.trace = Append(@, Tried("redirect", pkg.fname, after, FALSE))]
          ELSE pkg' = [pkg EXCEPT !.pc = "s3"]
    /\ UNCHANGED <<streamVars, sess, det, io, duo, cli>>

\* Strategy 3: the extension of the first Content-Type is appended.
Strategy3 ==
    /\ pkg.pc = "s3"
    /\ LET contentType == Capture(FirstValue(pkg.headers, "content-type"))
           ext == contentTypeToExt(contentType)
           after == IF ext # <<>> THEN pkg.fname \o ext ELSE pkg.fname
       IN IF StillUnknown(pkg.fname)
          THEN pkg' = [pkg EXCEPT !.pc = "fetch", !.fname = after,
                         !.trace = Append(@, Tried("content-type", pkg.fname, after, FALSE))]
          ELSE pkg' = [pkg EXCEPT !.pc = "fetch"]
    /\ UNCHANGED <<streamVars, sess, det, io, duo, cli>>

\* The fetch "curl -fSL -o dest url": a failure of curl, or no file at dest,
\* is thrown.  The format is that of the name; a name of no known format
\* goes to detectFromMagic.
Fetch ==
    /\ pkg.pc = "fetch"
    /\ IF ~pkg.fetchOk
       THEN pkg' = [pkg EXCEPT !.pc = "thrown"]
       ELSE pkg' = [pkg EXCEPT !.files = @ \cup {pkg.fname},
                               !.format = detect(pkg.fname),
                               !.pc = IF detect(pkg.fname) = "unknown"
                                      THEN "magic" ELSE "returned"]
    /\ UNCHANGED <<streamVars, sess, det, io, duo, cli>>

\* format = await detectFromMagic(dest); a failure of "file" gives "unknown".
Magic ==
    /\ pkg.pc = "magic"
    /\ \E fails \in BOOLEAN :
          pkg' = [pkg EXCEPT !.pc = "returned",
                             !.magic = IF fails THEN "failed" ELSE "ok",
                             !.format = IF fails THEN "unknown"
                                        ELSE detectFromMagic(MimeOf(pkg.content))]
    /\ UNCHANGED <<streamVars, sess, det, io, duo, cli>>

DlNext ==
    \/ DownloadBegin
    \/ HeadProbe
    \/ Strategy1
    \/ Strategy2
    \/ Strategy3
    \/ Fetch
    \/ Magic

DlSpec == DlInit /\ [][DlNext]_vars

\* ---------------------------------------------------- download properties

Rank(s) == CASE s = "disposition" -> 1 [] s = "redirect" -> 2 [] OTHER -> 3

\* The probe is over: the call is at the fetch or past it.
ProbeOver == pkg.pc \in {"fetch", "magic", "returned", "thrown"}

\* The strategies that gave the name a known format.
Resolving == {i \in 1..Len(pkg.trace) : detect(pkg.trace[i].after) # "unknown"}

\* C17: the header probe runs only for a first name of no known format; the
\* strategies run in the order Content-Disposition, redirect target,
\* Content-Type, each only while the name is still unknown; the name an
\* earlier strategy resolved is not overridden by a later one.
C17_ProbeCascade ==
    /\ (pkg.probed \/ pkg.trace # <<>>) => detect(pkg.initial) = "unknown"
    /\ \A i \in 1..Len(pkg.trace) : detect(pkg.trace[i].before) = "unknown"
    /\ \A i, j \in 1..Len(pkg.trace) :
          i < j => Rank(pkg.trace[i].s) < Rank(pkg.trace[j].s)
    /\ \A i \in Resolving :
          /\ \A j \in (i + 1)..Len(pkg.trace) : pkg.trace[j].after = pkg.trace[i].after
          /\ pkg.fname = pkg.trace[i].after

\* C17 witness: Content-Disposition gave no known format, the redirect target
\* did, Content-Type (present) was not asked, and the file was fetched.
C17_Witness ==
    /\ pkg.pc = "returned" /\ Len(pkg.trace) = 2
    /\ pkg.trace[1].s = "disposition" /\ pkg.trace[1].after = pkg.initial
    /\ pkg.trace[2].s = "redirect"
    /\ pkg.fname = <<"a", "p", "p", ".", "d", "e", "b">> /\ pkg.format = "deb"
    /\ Lines(pkg.headers, "content-type") # {}
    /\ Lines(pkg.headers, "content-disposition") # {}

\* Content-Disposition gives no filename of a known format (and is no broken
\* escape), and neither does the target of the redirects.
NoUsableName ==
    LET disp == Capture(FirstValue(pkg.headers, "content-disposition")) IN
    /\ disp = <<>> \/ (~Malformed(disp) /\ detect(decodeURIComponent(disp)) = "unknown")
    /\ detect(UrlFilename(LastValue(pkg.headers, "location"))) = "unknown"

\* The Content-Type of the URL: that of the last response of the chain.
ResponseType == Capture(LastValue(pkg.headers, "content-type"))

TarGzExt == <<".", "t", "a", "r", ".", "g", "z">>

\* C18: the last segment of the URL has no known extension, the probe finds
\* no usable Content-Disposition or redirect filename, the Content-Type is
\* application/gzip: download returns the format "tar.gz", the extension of
\* the content type appended to the name.
C18_GzipContentType ==
    ( /\ pkg.pc = "returned" /\ pkg.hint = <<>> /\ pkg.probed /\ ~pkg.headFails
      /\ NoUsableName
      /\ ResponseType = <<"a", "p", "p", "l", "i", "c", "a", "t", "i", "o", "n", "/",
                          "g", "z", "i", "p">> )
    => (pkg.format = "tar.gz" /\ pkg.fname = pkg.initial \o TarGzExt)

\* C19: a strategy that fails does not keep the later ones from running
\* (after a Content-Disposition that cannot be decoded, the redirect target
\* and the Content-Type are still tried); when no strategy resolves the name,
\* the first name is used and the call goes on to the fetch.
C19_IndependentStrategies ==
    (ProbeOver /\ pkg.probed /\ ~pkg.headFails) =>
        /\ \A i \in 1..Len(pkg.trace) :
              (pkg.trace[i].threw /\ pkg.trace[i].s = "disposition")
                  => \E j \in 1..Len(pkg.trace) : pkg.trace[j].s = "redirect"
        /\ Resolving = {} => pkg.fname = pkg.initial

\* ================================================================ install
\* Package.install: the router on the format, and the cleanup of the
\* artifact.  The strategies are taken by how they end: an outcome with ok,
\* an outcome without (nothing installable in a dmg), or a raised error of a
\* command.  The filesystem calls of cleanup succeed.

\* A switch whose default is the strategy of a plain binary.
StrategyOfBinary(format) == "installBinary"

\* The switch of install: the strategy of a format; the default has none.
StrategyOf(format) ==
    CASE format = "dmg" -> "installDmg"
      [] format = "pkg" -> "installPkg"
      [] format = "zip" -> "installZip"
      [] format \in {"tar.gz", "tar.bz2", "tar.xz"} -> "installTar"
      [] format = "deb" -> "installDeb"
      [] format = "rpm" -> "installRpm"
      [] format = "appimage" -> "installAppImage"
      [] format = "exe" -> "installExe"
      [] format = "msi" -> "installMsi"
      [] format = "snap" -> "installSnap"
      [] format = "flatpak" -> "installFlatpak"
      [] format = "binary" -> "installBinary"
      [] OTHER -> "none"

\* file.format === "unknown" ? detect(file.filename) : file.format
InstallFormat(file) ==
    IF file.format = "unknown" THEN detect(file.filename) ELSE file.format

\* A cleanup that leaves the download directory when it has become empty.
DirAfterCleanupKept(dir, files) == dir

\* existsSync(DOWNLOAD_DIR) && readdirSync(DOWNLOAD_DIR).length === 0 -> rmdirSync
DirAfterCleanup(dir, files) == dir /\ files # {}

ArtifactNames == {<<"a", "p", "p", ".", "d", "m", "g">>,
                  <<"x", ".", "T", "G", "Z">>,
                  <<"d", "o", "w", "n", "l", "o", "a", "d">>}

Other == <<"o", "t", "h", "e", "r", ".", "z", "i", "p">>

\* install(file, opts) is called on an artifact in the download directory,
\* alone there or next to the file of another download.
InstInit ==
    /\ cli = Idle
    /\ \E name \in ArtifactNames, format \in Format,
          keep \in BOOLEAN, more \in SUBSET {Other}, ends \in {"ok", "notok", "raise"} :
          pkg = [pc |-> "install",
                 file |-> [filename |-> name, format |-> format],
                 keep |-> keep, ends |-> ends,
                 dir |-> TRUE, files |-> {name} \cup more,
                 strategy |-> "none", result |-> "none"]
    /\ sess = Idle
    /\ det = Idle
    /\ io = Idle
    /\ duo = Idle
    /\ streamIdle

\* The switch: the strategy of the format starts; with no strategy the
\* outcome is "Unsupported format", ok false.
Dispatch ==
    /\ pkg.pc = "install"
    /\ LET s == StrategyOf(InstallFormat(pkg.file)) IN
       pkg' = IF s = "none"
              THEN [pkg EXCEPT !.pc = "after", !.result = "unsupported"]
              ELSE [pkg EXCEPT !.pc = "strategy", !.strategy = s]
    /\ UNCHANGED <<streamVars, sess, det, io, duo, cli>>

\* The strategy ends: with an outcome (await result), or it raises and
\* install rejects at once.
StrategyEnds ==
    /\ pkg.pc = "strategy"
    /\ pkg' = IF pkg.ends = "raise" THEN [pkg EXCEPT !.pc = "raised"]
              ELSE [pkg EXCEPT !.pc = "after", !.result = pkg.ends]
    /\ UNCHANGED <<streamVars, sess, det, io, duo, cli>>

\* A cleanup after every outcome, unless the file is to be kept.
CleansUpAlways(keep, result) == ~keep

\* !o.keep && result.ok
CleansUp(keep, result) == ~keep /\ result = "ok"

\* if (!o.keep && result.ok) cleanup(file.path); return result
Return ==
    /\ pkg.pc = "after"
    /\ pkg' = IF CleansUp(pkg.keep, pkg.result)
              THEN [pkg EXCEPT !.pc = "returned",
                               !.files = @ \ {pkg.file.filename},
                               !.dir = DirAfterCleanup(pkg.dir,
                                                       pkg.files \ {pkg.file.filename})]
              ELSE [pkg EXCEPT !.pc = "returned"]
    /\ UNCHANGED <<streamVars, sess, det, io, duo, cli>>

InstNext ==
    \/ Dispatch
    \/ StrategyEnds
    \/ Return

InstSpec == InstInit /\ [][InstNext]_vars

\* C20: install has returned an outcome with ok and keep was not set: the
\* artifact is no file of the download directory any more, and the directory
\* is gone when it held no other file.
C20_CleanupOnSuccess ==
    (pkg.pc = "returned" /\ pkg.result = "ok" /\ ~pkg.keep) =>
        /\ pkg.file.filename \notin pkg.files
        /\ pkg.files = {} => ~pkg.dir

\* C20 witness: the only file of the directory was installed and removed,
\* and the directory with it.
C20_Witness ==
    /\ pkg.pc = "returned" /\ pkg.result = "ok" /\ ~pkg.keep
    /\ pkg.strategy = "installTar"
    /\ pkg.files = {} /\ ~pkg.dir

\* C31: install on an artifact of format "unknown" whose name is of no known
\* format either starts no strategy, returns the failure outcome of an
\* unsupported format and leaves the artifact where it is; for every other
\* format one strategy, that of the format, is started.
C31_UnsupportedOrOneStrategy ==
    pkg.pc # "install" =>
        IF InstallFormat(pkg.file) = "unknown"
        THEN /\ pkg.strategy = "none"
             /\ pkg.result = "unsupported"
             /\ pkg.pc # "raised"
             /\ pkg.file.filename \in pkg.files
        ELSE /\ pkg.strategy # "none"
             /\ pkg.result # "unsupported"
             /\ (pkg.file.format = "deb" => pkg.strategy = "installDeb")
             /\ (pkg.file.format = "dmg" => pkg.strategy = "installDmg")

C31_Witness ==
    /\ pkg.pc = "returned"
    /\ pkg.file.format = "unknown" /\ detect(pkg.file.filename) = "unknown"
    /\ pkg.result = "unsupported" /\ ~pkg.keep
    /\ pkg.file.filename \in pkg.files

\* C32: install leaves the artifact alone whenever keep is set, the outcome
\* is a failure or the strategy raised: the artifact is gone only after a
\* success outcome with keep not set.
C32_DeletedOnlyAfterSuccess ==
    /\ pkg.file.filename \notin pkg.files =>
          (pkg.pc = "returned" /\ pkg.result = "ok" /\ ~pkg.keep)
    /\ (pkg.pc \in {"returned", "raised"} /\ (pkg.keep \/ pkg.result # "ok")) =>
          (pkg.file.filename \in pkg.files /\ pkg.dir)

C32_Witness ==
    /\ pkg.pc = "returned" /\ pkg.result = "notok" /\ ~pkg.keep
    /\ pkg.strategy = "installDmg"
    /\ pkg.file.filename \in pkg.files

\* ===================================================== stream, cancellation
\* A call that is handed an already-triggered token (shell.ts lines 190-193)
\* is part of Init above: SIGTERM is sent and `killed` is set, and no timer
\* is armed.

\* C27: a call started with an already-triggered token escalates like a token
\* fired mid-run: once the 3 s grace window after the SIGTERM has passed and
\* every due timer callback has run, a child that is still running has been
\* sent SIGKILL.
C27_PreAbortedEscalates ==
    (/\ o.signal = "aborted"
     /\ phase = "running"
     /\ now >= Grace
     /\ \A t \in timers : t.rem > 0)
        => killSent

\* ============================================================ stream, text
\* The text side of one call of Shell.stream (shell.ts lines 204-257): the
\* chunks the child writes are collected in `stdout` and `stderr`, and a
\* command that fails is reported with the end of `stderr`.  The call has no
\* timeout, no stall detection, no token and is quiet (live: false).

MaxChunks == 3

\* The lengths of the chunks the child writes.
ChunkSizes == {1, 250, 499}

\* chunk.toString(): n characters, each named after the stream and its place
\* in all that the stream has carried.
Chunk(s, n, base) == [k \in 1..n |-> Tok(s, base + k)]

\* The command line of the call.
TextCmd == <<Tok("cmd", 1)>>

TextInit ==
    /\ cli = Idle
    /\ io = [pc |-> "stream", cmd |-> TextCmd, stdout |-> <<>>, stderr |-> <<>>,
             chunks |-> 0, message |-> <<>>]
    /\ o = NoOptions
    /\ child = [ignoresTerm |-> FALSE]
    /\ phase = "running"
    /\ code = "none"
    /\ killSent = FALSE /\ termSent = FALSE /\ procKilled = FALSE
    /\ killed = FALSE /\ stalled = FALSE /\ stallCount = 0
    /\ killReqs = <<>>
    /\ aborted = FALSE
    /\ timers = {}
    /\ pending = 0
    /\ calls = <<>>
    /\ outcome = Pending
    /\ now = 0 /\ idle = 0 /\ noOutput = TRUE /\ gapReached = FALSE
    /\ atClose = [done |-> FALSE, killed |-> FALSE, stallCount |-> 0, ncalls |-> 0]
    /\ sess = Idle
    /\ det = Idle
    /\ pkg = Idle
    /\ duo = Idle

\* proc.stdout.on("data") and proc.stderr.on("data"): the text of the chunk is
\* added to what its stream has given, and the idle timer is restarted.
TextData(s, n) ==
    /\ io.pc = "stream"
    /\ phase \in {"running", "exited", "reaped"}
    /\ io.chunks < MaxChunks
    /\ io' = IF s = "stdout"
             THEN [io EXCEPT !.stdout = @ \o Chunk(s, n, Len(@)), !.chunks = @ + 1]
             ELSE [io EXCEPT !.stderr = @ \o Chunk(s, n, Len(@)), !.chunks = @ + 1]
    /\ timers' = DataTimers(s)
    /\ idle' = 0
    /\ noOutput' = FALSE
    /\ UNCHANGED <<o, child, procVars, sigVars, killed, stalled, stallCount, aborted,
                   pending, calls, outcome, now, gapReached, histVars, sess, det, pkg, duo, cli>>

\* The promise has settled: the error of a rejection carries its message.
TextSettle ==
    /\ io.pc = "stream"
    /\ outcome.kind # "pending"
    /\ io' = [io EXCEPT !.pc = "settled",
                        !.message = StreamMessage(outcome, io.cmd, io.stderr, Short(1))]
    /\ UNCHANGED <<streamVars, sess, det, pkg, duo, cli>>

TextNext ==
    \/ \E s \in {"stdout", "stderr"} : \E n \in ChunkSizes : TextData(s, n)
    \/ \E c \in {"0", "1"} : ChildExit(c)
    \/ Reap
    \/ Close
    \/ TextSettle

TextSpec == TextInit /\ [][TextNext]_vars

\* ------------------------------------------------------- text properties

\* What of the message follows the header, the command and the line break.
MessageTail == SubSeq(io.message, Len(io.cmd) + 3, Len(io.message))

\* C25: when the child exits with a non-zero code and no kill was requested,
\* the call rejects with an error whose message carries the exit code and,
\* after the command, exactly the last min(500, |stderr|) characters of the
\* collected stderr.
C25_FailedMessageTail ==
    (io.pc = "settled" /\ code = "1" /\ ~killed /\ ~stalled) =>
        /\ outcome.kind = "Failed"
        /\ outcome.code = "1"
        /\ Len(io.message) >= Len(io.cmd) + 2
        /\ io.message[1] = Tok("failed", 1)
        /\ SubSeq(io.message, 2, Len(io.cmd) + 1) = io.cmd
        /\ io.message[Len(io.cmd) + 2] = NL
        /\ Len(MessageTail) = Min(500, Len(io.stderr))
        /\ \A i \in 1..Len(MessageTail) :
              MessageTail[i] = io.stderr[Len(io.stderr) - Len(MessageTail) + i]

C25_Witness ==
    /\ io.pc = "settled" /\ code = "1"
    /\ Len(io.stderr) > 500
    /\ Len(io.stdout) > 0

\* ============================================================ stream, echo
\* writeChunk of src/src/executor/shell.ts (lines 360-384): what the terminal
\* is sent for one chunk of a live call.  A text is the sequence of its
\* characters; "LF" is the line feed and "CR" the carriage return.

MaxTextLen == 4

EchoChars == {"a", "b", "CR", "LF"}

\* o.prefix || ""
Prefixes == {<<>>, <<"|", " ">>}

\* s.split(sep) for a separator of one character.
RECURSIVE Split(_, _)
Split(s, sep) ==
    IF \A i \in 1..Len(s) : s[i] # sep THEN <<s>>
    ELSE LET p == CHOOSE i \in 1..Len(s) : s[i] = sep /\ \A j \in 1..(i - 1) : s[j] # sep
         IN <<SubSeq(s, 1, p - 1)>> \o Split(SubSeq(s, p + 1, Len(s)), sep)

\* The last segment, empty or not.
VisibleLast(segments) == segments[Len(segments)]

\* segments.filter((s) => s).pop() || ""
Visible(segments) ==
    LET full == {i \in 1..Len(segments) : segments[i] # <<>>}
    IN IF full = {} THEN <<>>
       ELSE segments[CHOOSE i \in full : \A j \in full : j <= i]

\* What the body of the loop writes for one line, the line feed aside.
LineWrite(line, prefix) ==
    IF line = <<>> THEN <<>>
    ELSE IF \E i \in 1..Len(line) : line[i] = "CR"
      THEN LET visible == Visible(Split(line, "CR"))
           IN IF visible # <<>> THEN <<"CR">> \o prefix \o visible ELSE <<>>
    ELSE prefix \o line

RECURSIVE LinesWrite(_, _, _)
LinesWrite(lines, i, prefix) ==
    IF i > Len(lines) THEN <<>>
    ELSE (IF i > 1 THEN <<"LF">> ELSE <<>>) \o LineWrite(lines[i], prefix)
         \o LinesWrite(lines, i + 1, prefix)

\* All that writeChunk(text, prefix) sends to process.stderr, in order.
writeChunk(text, prefix) ==
    IF prefix = <<>> THEN text ELSE LinesWrite(Split(text, "LF"), 1, prefix)

EchoInit ==
    /\ cli = Idle
    /\ io \in [pc : {"chunk"}, text : SeqsUpTo(EchoChars, MaxTextLen),
               prefix : Prefixes, out : {<<>>}]
    /\ streamIdle
    /\ sess = Idle
    /\ det = Idle
    /\ pkg = Idle
    /\ duo = Idle

WriteChunk ==
    /\ io.pc = "chunk"
    /\ io' = [io EXCEPT !.pc = "written", !.out = writeChunk(io.text, io.prefix)]
    /\ UNCHANGED <<streamVars, sess, det, pkg, duo, cli>>

EchoNext == WriteChunk

EchoSpec == EchoInit /\ [][EchoNext]_vars

\* ------------------------------------------------------- echo properties

NoCR(s) == SelectSeq(s, LAMBDA c : c # "CR")
HasCR(s) == \E i \in 1..Len(s) : s[i] = "CR"
LineFeeds(s) == Cardinality({i \in 1..Len(s) : s[i] = "LF"})

\* What follows the last carriage return of a line.
LastSegment(line) ==
    LET cr == {i \in 1..Len(line) : line[i] = "CR"}
    IN SubSeq(line, (CHOOSE i \in cr : \A j \in cr : j <= i) + 1, Len(line))

\* What a terminal shows of a line: the run of characters that ends at its
\* last character other than a carriage return.
Shown(line) ==
    LET ch == {i \in 1..Len(line) : line[i] # "CR"}
    IN IF ch = {} THEN <<>>
       ELSE LET e == CHOOSE i \in ch : \A j \in ch : j <= i
                b == CHOOSE i \in 1..e :
                        /\ \A k \in i..e : line[k] # "CR"
                        /\ (i = 1 \/ line[i - 1] = "CR")
            IN SubSeq(line, b, e)

InLines == Split(io.text, "LF")
OutLines == Split(io.out, "LF")

TableExt == contentTypeToExt(MimeOf(pkg.content))

\* C30: the magic probe agrees with the content-type table: for a MIME type
\* the table maps to an extension, detectFromMagic returns the format of a
\* name with that extension (application/gzip gives tar.gz); a probe that
\* fails gives "unknown" and the download still returns.
C30_MagicAgreesWithTable ==
    (pkg.pc = "returned" /\ pkg.magic # "none") =>
        /\ pkg.magic = "failed" => pkg.format = "unknown"
        /\ (pkg.magic = "ok" /\ TableExt # <<>>) =>
              pkg.format = detect(<<"f">> \o TableExt)

\* ================================================================ fromUrl
\* Package.fromUrl (package.ts lines 238-241): download(url, filename), then
\* install(file, opts) on what the download returned.  The artifact is the
\* downloaded file in the download directory.

\* The download has returned its result and install is called with it.
FromUrlInstall ==
    /\ "fname" \in DOMAIN pkg
    /\ pkg.pc = "returned"
    /\ \E keep \in BOOLEAN, ends \in {"ok", "notok", "raise"} :
          pkg' = [pc |-> "install",
                  file |-> [filename |-> pkg.fname, format |-> pkg.format],
                  keep |-> keep, ends |-> ends,
                  dir |-> pkg.dir, files |-> pkg.files,
                  strategy |-> "none", result |-> "none"]
    /\ UNCHANGED <<streamVars, sess, det, io, duo, cli>>

UrlNext ==
    \/ DlNext
    \/ FromUrlInstall
    \/ InstNext

UrlSpec == DlInit /\ [][UrlNext]_vars

\* The install of a fromUrl operation has ended: it returned an outcome or
\* it raised.
InstallEnded == "file" \in DOMAIN pkg /\ pkg.pc \in {"returned", "raised"}

\* C21: after a fromUrl operation has ended, whether the install succeeded,
\* returned a failure outcome or raised, and keep was not set, the downloaded
\* file is no longer in the download directory.
C21_ArtifactRemovedOnEveryPath ==
    (InstallEnded /\ ~pkg.keep) => pkg.file.filename \notin pkg.files

\* ====================================================== install strategies
\* The strategies install() dispatches to (package.ts lines 247-493), each
\* as the list of its steps: a command run with `await Shell.exec` (a failed
\* command rejects and the await raises), the probe Shell.has, a returned
\* outcome, and `return installPkg(...)` / `return installBinary(...)`, which
\* hands the promise of the callee back without awaiting it.  installDmg and
\* installZip run their steps in try { } finally { }, with the volume mounted
\* at, or the archive extracted to, a temporary location.

Ins(op, cmd) == [op |-> op, cmd |-> cmd]

StrategyNames ==
    {"installDmg", "installZip", "installDeb", "installRpm", "installPkg", "installBinary"}

\* What readdirSync finds in the volume or in the extraction directory.
ContentsOf(s) ==
    CASE s = "installDmg" -> {"app", "old app", "pkg", "one file", "other"}
      [] s = "installZip" -> {"app", "old app", "one file", "other"}
      [] OTHER -> {"-"}

\* The steps of a strategy in the order of its text; `dnf` is the answer of
\* Shell.has("dnf").
StrategyBody(s, contents, dnf) ==
    CASE s = "installDmg" ->
           <<Ins("exec", "hdiutil attach")>> \o
           (CASE contents = "app" -> <<Ins("exec", "cp -R"), Ins("return", "ok")>>
              [] contents = "old app" ->
                   <<Ins("exec", "rm -rf"), Ins("exec", "cp -R"), Ins("return", "ok")>>
              [] contents = "pkg" -> <<Ins("return call", "installPkg")>>
              [] contents = "one file" -> <<Ins("return call", "installBinary")>>
              [] OTHER -> <<Ins("return", "notok")>>)
      [] s = "installZip" ->
           <<Ins("exec", "unzip")>> \o
           (CASE contents = "app" -> <<Ins("exec", "cp -R"), Ins("return", "ok")>>
              [] contents = "old app" ->
                   <<Ins("exec", "rm -rf"), Ins("exec", "cp -R"), Ins("return", "ok")>>
              [] contents = "one file" -> <<Ins("return call", "installBinary")>>
              [] OTHER -> <<Ins("exec", "cp -R *"), Ins("return", "ok")>>)
      [] s = "installDeb" ->
           <<Ins("exec", "dpkg -i"), Ins("exec", "apt-get install -f"), Ins("return", "ok")>>
      [] s = "installRpm" ->
           <<Ins("has", "which dnf"),
             Ins("exec", IF dnf THEN "dnf install" ELSE "rpm -i"), Ins("return", "ok")>>
      [] s = "installPkg" -> <<Ins("exec", "installer"), Ins("return", "ok")>>
      [] OTHER -> <<Ins("exec", "cp"), Ins("exec", "chmod"), Ins("return", "ok")>>

\* The command of the finally block; each ends in "|| true".
FinallyOf(s) ==
    CASE s = "installDmg" -> "hdiutil detach"
      [] s = "installZip" -> "rm -rf tmpDir"
      [] OTHER -> "none"

\* The commands that may fail when they run.
Failing == {"none", "hdiutil attach", "unzip", "rm -rf", "cp -R", "cp -R *", "dpkg -i",
            "apt-get install -f", "dnf install", "rpm -i", "installer", "cp", "chmod"}

\* The commands of a callee that read the file inside the temporary location.
ReadsLocation(cmd) == cmd \in {"installer", "cp"}

\* A failed command that is taken for a success.
RaisesNever(ins, ok) == FALSE

\* await Shell.exec(cmd) raises when the command failed; Shell.has catches.
Raises(ins, ok) == ins.op = "exec" /\ ~ok

\* A block left without its finally.
AfterBodyDirect(s) == "settle"

\* Where control goes when the body is left, by return or by a raise.
AfterBody(s) == IF FinallyOf(s) = "none" THEN "settle" ELSE "finally"

NoCallee == [body |-> <<>>, ip |-> 0, st |-> "none"]

StratInit ==
    /\ cli = Idle
    /\ \E s \in StrategyNames, dnf \in BOOLEAN, bad \in Failing :
        \E contents \in ContentsOf(s) :
          /\ s # "installRpm" => dnf
          /\ pkg = [pc |-> "body", strategy |-> s, contents |-> contents, dnf |-> dnf,
                    bad |-> bad, ip |-> 1, open |-> "none",
                    held |-> (s = "installZip"), callee |-> NoCallee,
                    releasedAt |-> "-", ran |-> {}, result |-> "none"]
    /\ sess = Idle
    /\ det = Idle
    /\ io = Idle
    /\ duo = Idle
    /\ streamIdle

\* The next step of the body of the strategy.
BodyStep ==
    /\ pkg.pc = "body"
    /\ LET s == pkg.strategy
           ins == StrategyBody(s, pkg.contents, pkg.dnf)[pkg.ip]
           ok == IF ins.op = "has" THEN pkg.dnf ELSE ins.cmd # pkg.bad
       IN pkg' =
            CASE ins.op \in {"exec", "has"} ->
                   IF Raises(ins, ok)
                   THEN [pkg EXCEPT !.ran = @ \cup {[op |-> ins.op, cmd |-> ins.cmd, ok |-> ok]},
                                    !.open = "raise", !.pc = AfterBody(s)]
                   ELSE [pkg EXCEPT !.ran = @ \cup {[op |-> ins.op, cmd |-> ins.cmd, ok |-> ok]},
                                    !.held = @ \/ (ins.cmd = "hdiutil attach" /\ ok),
                                    !.ip = @ + 1]
              [] ins.op = "return" -> [pkg EXCEPT !.open = ins.cmd, !.pc = AfterBody(s)]
              [] OTHER -> [pkg EXCEPT !.open = "call", !.pc = AfterBody(s),
                                      !.callee = [body |-> StrategyBody(ins.cmd, "-", TRUE),
                                                  ip |-> 1, st |-> "running"]]
    /\ UNCHANGED <<streamVars, sess, det, io, duo, cli>>

\* The finally block: the volume is detached, the directory removed.
FinallyStep ==
    /\ pkg.pc = "finally"
    /\ pkg' = [pkg EXCEPT !.held = FALSE, !.releasedAt = pkg.callee.st, !.pc = "settle"]
    /\ UNCHANGED <<streamVars, sess, det, io, duo, cli>>

\* The command the callee is at ends, or the callee returns.  A command that
\* reads the file in a location that is gone may fail.
CalleeStep ==
    /\ pkg.callee.st = "running"
    /\ LET ins == pkg.callee.body[pkg.callee.ip] IN
       \E ok \in BOOLEAN :
          /\ ins.cmd = pkg.bad => ~ok
          /\ (ins.cmd # pkg.bad /\ ~(ReadsLocation(ins.cmd) /\ ~pkg.held)) => ok
          /\ pkg' =
               IF ins.op = "return" THEN [pkg EXCEPT !.callee.st = "done"]
               ELSE IF Raises(ins, ok)
                 THEN [pkg EXCEPT !.ran = @ \cup {[op |-> ins.op, cmd |-> ins.cmd, ok |-> ok]},
                                  !.callee.st = "failed"]
               ELSE [pkg EXCEPT !.ran = @ \cup {[op |-> ins.op, cmd |-> ins.cmd, ok |-> ok]},
                                !.callee.ip = @ + 1]
    /\ UNCHANGED <<streamVars, sess, det, io, duo, cli>>

\* The promise of the strategy settles, and with it `await` in install():
\* with the returned outcome, with the raise, or as the promise of the callee
\* does.
StrategySettles ==
    /\ pkg.pc = "settle"
    /\ pkg.open = "call" => pkg.callee.st \in {"done", "failed"}
    /\ pkg' = [pkg EXCEPT !.pc = "done",
                          !.result = IF pkg.open # "call" THEN pkg.open
                                     ELSE IF pkg.callee.st = "done" THEN "ok" ELSE "raise"]
    /\ UNCHANGED <<streamVars, sess, det, io, duo, cli>>

StratNext ==
    \/ BodyStep
    \/ FinallyStep
    \/ CalleeStep
    \/ StrategySettles

StratSpec == StratInit /\ [][StratNext]_vars

\* ---------------------------------------------------- strategy properties

Ran(cmd) == \E e \in pkg.ran : e.cmd = cmd

\* C22: on every exit path of a dmg install after the mount was attempted
\* (app copied, inner pkg or file delegated, nothing found, a step raised)
\* the volume is not mounted any more, and on every exit path of a zip
\* install the extraction directory is gone.
C22_ReleasedOnEveryExit ==
    pkg.pc = "done" =>
        /\ (pkg.strategy = "installDmg" /\ Ran("hdiutil attach")) => ~pkg.held
        /\ pkg.strategy = "installZip" => ~pkg.held

C22_Witness ==
    /\ pkg.pc = "done"
    /\ pkg.strategy = "installDmg"
    /\ [op |-> "exec", cmd |-> "hdiutil attach", ok |-> TRUE] \in pkg.ran
    /\ pkg.result = "raise"
    /\ ~pkg.held

\* C23: a failed command is never turned into a success: when a command the
\* strategy ran with Shell.exec has failed, install raises and returns no
\* outcome, with ok or without.
C23_FailureRaises ==
    (pkg.pc = "done" /\ \E e \in pkg.ran : e.op = "exec" /\ ~e.ok) =>
        pkg.result = "raise"

C23_Witness ==
    /\ pkg.pc = "done"
    /\ pkg.strategy = "installDeb"
    /\ [op |-> "exec", cmd |-> "dpkg -i", ok |-> FALSE] \in pkg.ran
    /\ pkg.result = "raise"

\* C28: when a dmg or zip install hands over to installPkg or installBinary
\* for a file inside the volume or the directory, the unmount or the removal
\* starts only after the callee has completed.
C28_ReleaseAfterCallee ==
    pkg.releasedAt # "running"

\* ================================================== two installs at a time
\* Two calls of installDmg / installZip that overlap (package.ts lines 248
\* and 326): each names its temporary location after the clock.

MaxMs == 3

Ops == {1, 2}

\* `/tmp/envready-dmg-${Date.now()}` and `/tmp/envready-zip-${Date.now()}`
TempPath(s, ms) == <<IF s = "installDmg" THEN "envready-dmg" ELSE "envready-zip", ms>>

TmpInit ==
    /\ cli = Idle
    /\ pkg = [pc |-> "two", ms |-> 0,
              ops |-> [i \in Ops |-> [st |-> "idle", strategy |-> "-", path |-> <<>>]],
              locations |-> {}]
    /\ sess = Idle
    /\ det = Idle
    /\ io = Idle
    /\ duo = Idle
    /\ streamIdle

\* A millisecond passes.
Millisecond ==
    /\ pkg.pc = "two"
    /\ pkg.ms < MaxMs
    /\ pkg' = [pkg EXCEPT !.ms = @ + 1]
    /\ UNCHANGED <<streamVars, sess, det, io, duo, cli>>

\* A strategy is entered: the location is named, then mounted or made.
Begin(i, s) ==
    /\ pkg.pc = "two"
    /\ pkg.ops[i].st = "idle"
    /\ pkg' = [pkg EXCEPT !.ops[i] = [st |-> "working", strategy |-> s,
                                      path |-> TempPath(s, pkg.ms)],
                          !.locations = @ \cup {TempPath(s, pkg.ms)}]
    /\ UNCHANGED <<streamVars, sess, det, io, duo, cli>>

\* The finally block of a strategy: its location is detached or removed.
Release(i) ==
    /\ pkg.pc = "two"
    /\ pkg.ops[i].st = "working"
    /\ pkg' = [pkg EXCEPT !.ops[i].st = "done",
                          !.locations = @ \ {pkg.ops[i].path}]
    /\ UNCHANGED <<streamVars, sess, det, io, duo, cli>>

TmpNext ==
    \/ Millisecond
    \/ \E i \in Ops : \E s \in {"installDmg", "installZip"} : Begin(i, s)
    \/ \E i \in Ops : Release(i)

TmpSpec == TmpInit /\ [][TmpNext]_vars

\* C29: two installs that run at the same time never use the same mount
\* point or the same extraction directory, so the location of an install at
\* work is there until its own cleanup.
C29_DistinctLocations ==
    /\ \A i, j \in Ops :
          (i # j /\ pkg.ops[i].st = "working" /\ pkg.ops[j].st = "working")
              => pkg.ops[i].path # pkg.ops[j].path
    /\ \A i \in Ops : pkg.ops[i].st = "working" => pkg.ops[i].path \in pkg.locations

\* ==================================================== two calls of stream
\* Two calls of Shell.stream that run at the same time.  All the state of a
\* call is local to it (shell.ts lines 113-126): the child `proc`, `killed`,
\* `stalled`, `stallCount`, `timer`, `stallTimer` and the escalation timers
\* are variables of the closure of the call.  Neither call has a cancellation
\* token.  Time is not counted: a timer that is armed fires at some later
\* moment, whatever the delays of the two calls are.  The 'exit' event is
\* left out: the handle takes a signal until 'close'.

MaxRounds == 1

Calls == {1, 2}

\* The options of a call: a timeout, or stall detection with or without a
\* decision handler, or neither.
DuoOptions ==
    {p \in [timeout : {0, 1}, stallTimeout : {0, 1}, onStall : BOOLEAN] :
        /\ p.onStall => p.stallTimeout > 0
        /\ ~(p.timeout > 0 /\ p.stallTimeout > 0)}

\* A kill that reaches the child of every call.
VictimsAll(i) == {1, 2}

\* proc.kill(...) in the handlers of call i: `proc` is the child that call
\* i has spawned.
Victims(i) == {i}

\* proc.kill("SIGTERM") and proc.kill("SIGKILL") on the child of a call.
Term(c) == [c EXCEPT !.procKilled = @ \/ c.phase \in {"running", "exited"},
                     !.termSent = @ \/ c.phase = "running"]
Kill(c) == [c EXCEPT !.procKilled = @ \/ c.phase \in {"running", "exited"},
                     !.killSent = @ \/ c.phase = "running"]

\* resetStallTimer of a call
DuoResetStall(c) ==
    IF c.o.stallTimeout <= 0 THEN c.timers
    ELSE Clear(c.timers, "stall") \cup {Timer("stall", "-", c.o.stallTimeout)}

\* The else branch of the decision of a call, before the signal.
DuoKillDecision(c) ==
    [c EXCEPT !.stalled = TRUE, !.killed = TRUE, !.timers = ArmGrace(@, "stall")]

NewCall(p) ==
    LET c == [o |-> p, phase |-> "running", code |-> "none", killed |-> FALSE,
              stalled |-> FALSE, stallCount |-> 0, termSent |-> FALSE, killSent |-> FALSE,
              procKilled |-> FALSE, timers |-> {}, pending |-> 0, outcome |-> "pending"]
    IN [c EXCEPT !.timers = DuoResetStall(c)
                    \cup (IF p.timeout > 0 THEN {Timer("timeout", "-", p.timeout)} ELSE {})]

DuoInit ==
    /\ cli = Idle
    /\ duo \in [pc : {"two"}, calls : [Calls -> {NewCall(p) : p \in DuoOptions}]]
    /\ sess = Idle
    /\ det = Idle
    /\ pkg = Idle
    /\ io = Idle
    /\ streamIdle

\* A handler of call i has run: its state is c2; with sig, the handler has
\* sent `s` to its child.
Handled(i, c2, sig, s) ==
    duo' = [duo EXCEPT !.calls =
              [j \in Calls |->
                 LET b == IF j = i THEN c2 ELSE duo.calls[j]
                 IN IF sig /\ j \in Victims(i)
                    THEN (IF s = "SIGTERM" THEN Term(b) ELSE Kill(b))
                    ELSE b]]

DuoRest == UNCHANGED <<streamVars, sess, det, pkg, io, cli>>

\* A chunk arrives in call i.
DuoData(i) ==
    LET c == duo.calls[i] IN
    /\ c.phase \in {"running", "exited"}
    /\ c.stallCount < MaxRounds
    /\ Handled(i, [c EXCEPT !.timers = DuoResetStall(c)], FALSE, "-")
    /\ DuoRest

\* The child of call i ends by itself, or by a signal it was sent.
DuoExit(i, x) ==
    LET c == duo.calls[i] IN
    /\ c.phase = "running"
    /\ x = "null" => (c.termSent \/ c.killSent)
    /\ Handled(i, [c EXCEPT !.phase = "exited", !.code = x], FALSE, "-")
    /\ DuoRest

\* The timeout timer of call i fires.
DuoTimeout(i) ==
    LET c == duo.calls[i] IN
    /\ \E t \in c.timers : t.kind = "timeout"
    /\ Handled(i, [c EXCEPT !.killed = TRUE,
                            !.timers = ArmGrace(Clear(@, "timeout"), "timeout")],
               TRUE, "SIGTERM")
    /\ DuoRest

\* The idle timer of call i fires.
DuoStall(i) ==
    LET c == duo.calls[i] IN
    /\ \E t \in c.timers : t.kind = "stall"
    /\ IF c.o.onStall
       THEN Handled(i, [c EXCEPT !.stallCount = @ + 1, !.pending = @ + 1,
                                 !.timers = Clear(@, "stall")], FALSE, "-")
       ELSE Handled(i, DuoKillDecision([c EXCEPT !.stallCount = @ + 1,
                                                 !.timers = Clear(@, "stall")]),
                    TRUE, "SIGTERM")
    /\ DuoRest

\* The decision handler of call i answers.
DuoAnswer(i, d) ==
    LET c == duo.calls[i] IN
    /\ c.pending > 0
    /\ d = "wait" => c.stallCount < MaxRounds
    /\ IF Decide(d) = "wait"
       THEN Handled(i, [c EXCEPT !.pending = @ - 1, !.timers = DuoResetStall(c)], FALSE, "-")
       ELSE Handled(i, DuoKillDecision([c EXCEPT !.pending = @ - 1]), TRUE, "SIGTERM")
    /\ DuoRest

\* An escalation timer of call i fires.
DuoGrace(i) ==
    LET c == duo.calls[i] IN
    /\ \E t \in c.timers :
          /\ t.kind = "grace"
          /\ Handled(i, [c EXCEPT !.timers = @ \ {t}], ~c.procKilled, "SIGKILL")
    /\ DuoRest

\* The close handler of call i.
DuoClose(i) ==
    LET c == duo.calls[i] IN
    /\ c.phase = "exited"
    /\ Handled(i, [c EXCEPT !.phase = "closed",
                            !.timers = ClearOnClose(@),
                            !.outcome = IF c.stalled THEN "StallError"
                                        ELSE IF c.killed /\ c.code # "0" THEN "Killed"
                                        ELSE IF c.code # "0" THEN "Failed"
                                        ELSE "Ok"],
               FALSE, "-")
    /\ DuoRest

\* Some handler of call i runs.
DuoStep(i) ==
    \/ DuoData(i)
    \/ \E x \in {"0", "1", "null"} : DuoExit(i, x)
    \/ DuoTimeout(i)
    \/ DuoStall(i)
    \/ \E d \in {"wait", "kill", "throw"} : DuoAnswer(i, d)
    \/ DuoGrace(i)
    \/ DuoClose(i)

DuoNext == \E i \in Calls : DuoStep(i)

DuoSpec == DuoInit /\ [][DuoNext]_vars

\* ------------------------------------------------------- duo properties

Plain(c) == c.o.timeout = 0 /\ c.o.stallTimeout = 0

\* C24: calls of stream that run at the same time are isolated: a handler of
\* one call (its timeout, its stall kill, its decision) changes nothing of
\* the other call, a child is signalled only by the timeout or the stall
\* of its own call, the result of a call follows from its own child and its
\* own options, and a decision that is pending in one call does not keep the
\* other from closing.
C24_CallsIsolated ==
    /\ [][\A i \in Calls : DuoStep(i) =>
             \A j \in Calls \ {i} : duo'.calls[j] = duo.calls[j]]_vars
    /\ [](\A i \in Calls :
            LET c == duo.calls[i] IN
            /\ (c.termSent \/ c.killSent) => c.killed
            /\ c.killed => (c.o.timeout > 0 \/ c.o.stallTimeout > 0)
            /\ (Plain(c) /\ c.phase = "closed") =>
                  c.outcome = (IF c.code = "0" THEN "Ok" ELSE "Failed")
            /\ c.phase = "exited" => ENABLED DuoClose(i))

C24_Witness ==
    /\ duo.pc = "two"
    /\ duo.calls[1].killed /\ duo.calls[1].termSent /\ duo.calls[1].phase = "running"
    /\ ~duo.calls[2].killed /\ ~duo.calls[2].termSent
    /\ duo.calls[2].phase = "closed" /\ duo.calls[2].outcome = "Ok"

\* ------------------------------------------------------------------------
\* session, errors of a kill: the catch handler applied to the rejection of a
\* script that was killed or that stalled
\* ------------------------------------------------------------------------

\* The lengths of the commands of a session.
CmdWidths == {10, 40, 80}

\* The rejections of stream() that come from a timeout, a cancellation or a
\* stall decision.
KillErrors ==
    {[kind |-> "Killed", code |-> "none", cause |-> c] : c \in {"timeout", "aborted"}}
        \cup {[kind |-> "StallError", code |-> "none", cause |-> "stall"]}

\* A session of two commands or more whose stream() call rejected.
CatchInit ==
    /\ cli = Idle
    /\ \E n \in 2..MaxCmds : \E ws \in [1..n -> CmdWidths] : \E e \in KillErrors :
         sess = [pc |-> "rejected", n |-> n, widths |-> ws, error |-> e,
                 message |-> <<>>]
    /\ det = Idle /\ pkg = Idle /\ io = Idle /\ duo = Idle
    /\ streamIdle

\* .catch((err) => { ...; err.message = cleaned; throw err })
SessionCatch ==
    /\ sess.pc = "rejected"
    /\ sess' = [sess EXCEPT
                  !.pc = "caught",
                  !.message = SessionResult(SessionWrapped(sess.n), sess.error,
                                            Join(SessionScript(sess.n)), <<>>,
                                            sess.widths).message]
    /\ UNCHANGED <<streamVars, det, pkg, io, duo, cli>>

CatchNext == SessionCatch

CatchSpec == CatchInit /\ [][CatchNext]_vars

Markup == {"sete", "assign", "echo"}

\* C34: the message of a multi-command session that was ended by a timeout,
\* a cancellation or a stall holds no "set -e", no "_envready_step="
\* assignment and no step-marker echo, whole or in part.
C34_KillErrorsFreeOfMarkup ==
    sess.pc = "caught" =>
        \A k \in 1..Len(sess.message) :
            /\ sess.message[k].t \notin Markup
            /\ sess.message[k].t = "part" => sess.message[k].i \notin Markup

\* ------------------------------------------------------------------------
\* stream, the data handlers: what is accumulated, what the trailing-output
\* window holds and what the line observer is called with
\* ------------------------------------------------------------------------

\* outputLines keeps this many entries.
WindowSize == 10

\* The chunks a child's pipes deliver: texts that end with a line feed, that
\* end in the middle of a line or start there, blank lines, lines with spaces
\* around them, and a burst of six lines.
LineChunks ==
    { <<"a">>, <<"b", "LF">>, <<"LF", "a", "b">>,
      <<" ", "a", " ", "LF", " ", "LF">>,
      <<"a", "LF", "b", "LF", "a", "b", "LF", "b", "a", "LF", "a", "LF", "b">> }

Streams == {"stdout", "stderr"}

\* line.trim()
RECURSIVE TrimStart(_)
TrimStart(s) == IF Len(s) > 0 /\ s[1] = " " THEN TrimStart(Tail(s)) ELSE s
RECURSIVE TrimEnd(_)
TrimEnd(s) ==
    IF Len(s) > 0 /\ s[Len(s)] = " " THEN TrimEnd(SubSeq(s, 1, Len(s) - 1)) ELSE s
Trim(s) == TrimEnd(TrimStart(s))

\* A window that is never shortened.
PushAll(window, line) ==
    IF Trim(line) # <<>> THEN Append(window, Trim(line)) ELSE window

\* The body of the loop of trackLine for one line.
Push(window, line) ==
    IF Trim(line) # <<>>
    THEN IF Len(window) + 1 > WindowSize
         THEN Tail(Append(window, Trim(line)))
         ELSE Append(window, Trim(line))
    ELSE window

\* trackLine(text), from line i of text.split("\n") on
RECURSIVE trackLine(_, _, _)
trackLine(window, lines, i) ==
    IF i > Len(lines) THEN window
    ELSE trackLine(Push(window, lines[i]), lines, i + 1)

\* The calls o.onLine(line, stream) of one data handler.
RECURSIVE onLineCalls(_, _, _)
onLineCalls(lines, i, stream) ==
    IF i > Len(lines) THEN <<>>
    ELSE (IF Trim(lines[i]) # <<>> THEN <<[line |-> lines[i], stream |-> stream]>>
          ELSE <<>>)
         \o onLineCalls(lines, i + 1, stream)

\* A call with a line observer whose child has written nothing yet.
LineInit ==
    /\ cli = Idle
    /\ io = [pc |-> "open", stdout |-> <<>>, stderr |-> <<>>, outputLines |-> <<>>,
             seen |-> <<>>, chunks |-> <<>>]
    /\ sess = Idle /\ det = Idle /\ pkg = Idle /\ duo = Idle
    /\ streamIdle

\* proc.stdout.on("data") and proc.stderr.on("data")
LineData(text, stream) ==
    /\ io.pc = "open"
    /\ Len(io.chunks) < MaxChunks
    /\ io' = [io EXCEPT
                !.stdout = IF stream = "stdout" THEN @ \o text ELSE @,
                !.stderr = IF stream = "stderr" THEN @ \o text ELSE @,
                !.outputLines = trackLine(@, Split(text, "LF"), 1),
                !.seen = @ \o onLineCalls(Split(text, "LF"), 1, stream),
                !.chunks = Append(@, [text |-> text, stream |-> stream])]
    /\ UNCHANGED <<streamVars, sess, det, pkg, duo, cli>>

\* proc.on("close"): the pipes have ended.
LineClose ==
    /\ io.pc = "open"
    /\ io' = [io EXCEPT !.pc = "closed"]
    /\ UNCHANGED <<streamVars, sess, det, pkg, duo, cli>>

LineNext ==
    \/ \E text \in LineChunks : \E stream \in Streams : LineData(text, stream)
    \/ LineClose

LineSpec == LineInit /\ [][LineNext]_vars

\* ------------------------------------------------------- line properties

NonBlank(lines) == SelectSeq(lines, LAMBDA l : Trim(l) # <<>>)

\* The non-blank lines of the chunks in arrival order, trimmed.
RECURSIVE ChunkLines(_)
ChunkLines(chunks) ==
    IF Len(chunks) = 0 THEN <<>>
    ELSE LET ls == NonBlank(Split(chunks[1].text, "LF"))
         IN [k \in 1..Len(ls) |-> Trim(ls[k])] \o ChunkLines(Tail(chunks))

\* C35: at every point of a call the trailing-output window holds at most 10
\* entries, and they are the most recent non-blank, trimmed lines of the
\* stdout and stderr chunks in arrival order.
C35_WindowBoundedAndCurrent ==
    io.pc \in {"open", "closed"} =>
        /\ Len(io.outputLines) <= WindowSize
        /\ io.outputLines = SliceLast(ChunkLines(io.chunks), WindowSize)

\* C35 witness: more than ten lines have arrived on both pipes, one of them
\* with spaces around it, and the window has dropped the oldest.
C35_Witness ==
    /\ io.pc = "open"
    /\ Len(ChunkLines(io.chunks)) > WindowSize
    /\ Len(io.outputLines) = WindowSize
    /\ \E i, j \in 1..Len(io.chunks) :
          /\ io.chunks[i].stream = "stdout" /\ io.chunks[j].stream = "stderr"
          /\ io.chunks[i].text[1] = " "

\* The text of the chunks of one pipe, in order.
RECURSIVE Concat(_, _)
Concat(chunks, stream) ==
    IF Len(chunks) = 0 THEN <<>>
    ELSE (IF chunks[1].stream = stream THEN chunks[1].text ELSE <<>>)
         \o Concat(Tail(chunks), stream)

SeenOn(stream) ==
    LET mine == SelectSeq(io.seen, LAMBDA c : c.stream = stream)
    IN [k \in 1..Len(mine) |-> mine[k].line]

\* C37: when the pipes have ended the line observer has received every
\* non-blank line of stdout and of stderr once and whole, in order, however
\* the output was split into chunks, and the accumulated stdout and stderr
\* are the chunks of each pipe put together in order.
C37_LinesWholeOnceInOrder ==
    io.pc = "closed" =>
        /\ io.stdout = Concat(io.chunks, "stdout")
        /\ io.stderr = Concat(io.chunks, "stderr")
        /\ SeenOn("stdout") = NonBlank(Split(io.stdout, "LF"))
        /\ SeenOn("stderr") = NonBlank(Split(io.stderr, "LF"))

\* ------------------------------------------------------------------------
\* install, the stall handler: Shell.session as the install command calls
\* it, with the handler createStallHandler returns as o.onStall
\* ------------------------------------------------------------------------

\* How agent.chat ends: with a reply that holds WAIT, with another reply, or
\* with an error.
ChatEnds == {"WAIT", "KILL", "fail"}

\* The handler: the reply decides; when the chat failed, "wait" for the first
\* stall and "kill" from the second on.
StallHandler(chat, info) ==
    CASE chat = "WAIT" -> "wait"
      [] chat = "KILL" -> "kill"
      [] OTHER -> IF info.stallCount <= 1 THEN "wait" ELSE "kill"

\* The options of the install command: a timeout of 600 s, an idle timeout of
\* 10 s (here 3 and 1: the timeout outlasts two idle periods), the handler
\* and the token of the tool.  The AI either fails at every call or answers
\* in any way.
HandlerInit ==
    /\ cli = Idle
    /\ o = [timeout |-> 3, stallTimeout |-> 1, onStall |-> TRUE, signal |-> "fresh"]
    /\ child \in [ignoresTerm : BOOLEAN]
    /\ phase \in {"running", "spawnfail"}
    /\ code = "none"
    /\ killSent = FALSE /\ termSent = FALSE /\ procKilled = FALSE
    /\ killed = FALSE /\ stalled = FALSE /\ stallCount = 0
    /\ killReqs = <<>>
    /\ aborted = FALSE
    /\ timers = ResetStallTimer({}) \cup {Timer("timeout", "-", o.timeout)}
    /\ pending = 0
    /\ calls = <<>>
    /\ outcome = Pending
    /\ now = 0 /\ idle = 0 /\ noOutput = TRUE /\ gapReached = FALSE
    /\ atClose = [done |-> FALSE, killed |-> FALSE, stallCount |-> 0, ncalls |-> 0]
    /\ sess \in [pc : {"install"}, ai : {"fails", "answers"}]
    /\ det = Idle /\ pkg = Idle /\ io = Idle /\ duo = Idle

\* The call of o.onStall that has waited longest for its answer.
Asked == calls[Len(calls) - pending + 1]

\* The promise of the handler settles, the chat having ended as chat.
HandlerAnswer(chat) ==
    /\ pending > 0
    /\ sess.ai = "fails" => chat = "fail"
    /\ DecisionAnswer(StallHandler(chat, Asked))

\* The steps of the call for a child that writes nothing.
HandlerNext ==
    \/ Tick
    \/ \E c \in {"0", "1"} : ChildExit(c)
    \/ ChildDies
    \/ Reap
    \/ StallFire
    \/ \E chat \in ChatEnds : HandlerAnswer(chat)
    \/ TimeoutFire
    \/ AbortFire
    \/ \E t \in timers : GraceFire(t)
    \/ Close
    \/ ErrorEvent

HandlerSpec == HandlerInit /\ [][HandlerNext]_vars

\* The event loop as in FairSpec; a chat that fails does fail in the end.
HandlerFair ==
    /\ HandlerSpec
    /\ WF_vars(Tick)
    /\ WF_vars(TimeoutFire)
    /\ WF_vars(StallFire)
    /\ WF_vars(HandlerAnswer("fail"))
    /\ WF_vars(\E t \in timers : GraceFire(t))
    /\ WF_vars(ChildDies)
    /\ WF_vars(Reap)
    /\ WF_vars(Close)
    /\ WF_vars(ErrorEvent)

\* C38: when the AI call fails the handler answers "wait" for the first
\* stall and "kill" from the second on; so with an AI that always fails a
\* child that stays silent gets its kill decision at the second stall, and
\* the session rejects with a StallError.
C38_FallbackKillsAtSecondStall ==
    /\ [][HandlerAnswer("fail")
            => IF Asked.stallCount <= 1 THEN ~stalled' /\ Armed("stall")'
               ELSE stalled' /\ killed']_vars
    /\ []((sess.ai = "fails" /\ stalled) => stallCount = 2)
    /\ (sess.ai = "fails" /\ StallKillTaken)
          ~> (phase # "running" /\ outcome.kind = "StallError")

\* ------------------------------------------------------------------------
\* install, errorRecoveryLoop: the attempts, what the AI answers, what is run
\* for the answer and what the loop returns
\* ------------------------------------------------------------------------

MAX_AUTO_ATTEMPTS == 3

\* What askAIForFix returns, the parsed JSON of the reply as it is: the
\* action (any text), whether fix.alternative is there and how it installs
\* (a download of a package, or commands), whether fix.commands is a list
\* that is not empty, and whether fix.retry is other than false.
FixActions ==
    [action : {"skip", "alternative", "commands", "other"},
     alternative : {"none", "url", "commands"},
     commands : BOOLEAN, retry : BOOLEAN]

NoFix == [action |-> "-", alternative |-> "none", commands |-> FALSE, retry |-> TRUE]

\* A loop that goes on to verification whatever fix.retry says.
AfterFixNoRetry(fix, verify) == IF verify THEN "verify" ELSE "true"

\* What follows the fix commands when they succeeded: the retry of the
\* original install, else the verification when the tool has a verify
\* command, else "return true".
AfterFix(fix, verify) ==
    IF fix.retry THEN "retry" ELSE IF verify THEN "verify" ELSE "true"

\* The loop is entered for a tool that has a verify command or has none.
RecInit ==
    /\ cli \in [pc : {"ask"}, verify : BOOLEAN, attempt : {1}, asks : {0},
                fix : {NoFix}, ok : {{}}, result : {"none"}, why : {"-"}]
    /\ sess = Idle /\ det = Idle /\ pkg = Idle /\ io = Idle /\ duo = Idle
    /\ streamIdle

\* return b
RecReturn(c, b, why) == [c EXCEPT !.pc = "done", !.result = b, !.why = why]

\* continue: the next attempt, or the end of the loop and "return false".
RecContinue(c) ==
    IF c.attempt + 1 <= MAX_AUTO_ATTEMPTS
    THEN [c EXCEPT !.pc = "ask", !.attempt = @ + 1, !.ok = {}]
    ELSE RecReturn(c, FALSE, "exhausted")

\* The head of the loop body: askAIForFix throws, or returns a fix that is
\* looked at: skip, an alternative, fix commands, or none of these.
AskFails ==
    /\ cli.pc = "ask"
    /\ cli' = RecReturn([cli EXCEPT !.asks = @ + 1], FALSE, "ai-error")
    /\ UNCHANGED <<streamVars, sess, det, pkg, io, duo>>

AskAnswers(fix) ==
    /\ cli.pc = "ask"
    /\ LET c == [cli EXCEPT !.asks = @ + 1, !.fix = fix]
       IN cli' = IF fix.action = "skip" THEN RecReturn(c, FALSE, "skip")
                 ELSE IF fix.action = "alternative" /\ fix.alternative # "none"
                   THEN [c EXCEPT !.pc = "alternative"]
                 ELSE IF fix.action = "commands" /\ fix.commands
                   THEN [c EXCEPT !.pc = "fix"]
                 ELSE RecContinue(c)
    /\ UNCHANGED <<streamVars, sess, det, pkg, io, duo>>

\* Package.fromUrl or Shell.session for the alternative ends; after a
\* success the verification is run and its result ignored.
AlternativeEnds(ok) ==
    /\ cli.pc = "alternative"
    /\ cli' = IF ok THEN RecReturn([cli EXCEPT !.ok = @ \cup {"alternative"}], TRUE, "ok")
              ELSE RecContinue(cli)
    /\ UNCHANGED <<streamVars, sess, det, pkg, io, duo>>

\* Shell.session(fix.commands) ends.
FixEnds(ok) ==
    /\ cli.pc = "fix"
    /\ cli' = IF ~ok THEN RecContinue(cli)
              ELSE LET c == [cli EXCEPT !.ok = @ \cup {"fix"}]
                   IN IF AfterFix(cli.fix, cli.verify) = "true"
                      THEN RecReturn(c, TRUE, "ok")
                      ELSE [c EXCEPT !.pc = AfterFix(cli.fix, cli.verify)]
    /\ UNCHANGED <<streamVars, sess, det, pkg, io, duo>>

\* Shell.session(tool.commands), the retry, ends; after a success the
\* verification is run and its result ignored.
RetryEnds(ok) ==
    /\ cli.pc = "retry"
    /\ cli' = IF ok THEN RecReturn([cli EXCEPT !.ok = @ \cup {"retry"}], TRUE, "ok")
              ELSE RecContinue(cli)
    /\ UNCHANGED <<streamVars, sess, det, pkg, io, duo>>

\* Shell.exec(tool.verify_command) after fix commands that are not retried.
VerifyEnds(ok) ==
    /\ cli.pc = "verify"
    /\ cli' = IF ok THEN RecReturn([cli EXCEPT !.ok = @ \cup {"verify"}], TRUE, "ok")
              ELSE RecContinue(cli)
    /\ UNCHANGED <<streamVars, sess, det, pkg, io, duo>>

RecNext ==
    \/ AskFails
    \/ \E fix \in FixActions : AskAnswers(fix)
    \/ \E ok \in BOOLEAN : AlternativeEnds(ok)
    \/ \E ok \in BOOLEAN : FixEnds(ok)
    \/ \E ok \in BOOLEAN : RetryEnds(ok)
    \/ \E ok \in BOOLEAN : VerifyEnds(ok)

RecSpec == RecInit /\ [][RecNext]_vars

\* ---------------------------------------------------- recovery properties

Returned == cli.pc = "done"

\* The bound on the requests, and what "return false" comes from.
RecoveryBounded ==
    /\ cli.pc \in {"ask", "alternative", "fix", "retry", "verify", "done"} =>
          cli.asks <= MAX_AUTO_ATTEMPTS
    /\ (Returned /\ cli.why \in {"ai-error", "skip"}) =>
          (cli.result = FALSE /\ cli.ok = {} /\ cli.asks = cli.attempt)
    /\ (Returned /\ cli.result = FALSE) =>
          (cli.why \in {"ai-error", "skip"} \/ cli.asks = MAX_AUTO_ATTEMPTS)

MaxTools == 3

\* setTimeout(..., 3000), in seconds
Cooldown == 3

\* The loop is at its first tool, resetAbort() done: a new controller and
\* ctrlCCount = 0.  "last" is the time since the latest Ctrl+C, Cooldown when
\* there was none that recently; "cancelled" the tools whose token fired.
SigInit ==
    /\ cli = [pc |-> "tool", tool |-> 1, aborted |-> FALSE, ctrlCCount |-> 0,
              cooldowns |-> {}, last |-> Cooldown, cancelled |-> {}, exit |-> "none"]
    /\ sess = Idle /\ det = Idle /\ pkg = Idle /\ io = Idle /\ duo = Idle
    /\ streamIdle

\* process.on("SIGINT"): the second press exits with 130; the first aborts
\* the controller of the moment and arms a cooldown timer.
SigInt ==
    /\ cli.pc = "tool"
    /\ cli' = IF cli.ctrlCCount + 1 >= 2
              THEN [cli EXCEPT !.pc = "exited", !.ctrlCCount = @ + 1, !.exit = "130",
                               !.last = 0]
              ELSE [cli EXCEPT !.ctrlCCount = @ + 1,
                               !.aborted = TRUE,
                               !.cancelled = @ \cup {cli.tool},
                               !.cooldowns = @ \cup {Cooldown},
                               !.last = 0]
    /\ UNCHANGED <<streamVars, sess, det, pkg, io, duo>>

\* if (ctrlCCount < 2) ctrlCCount = 0, when a cooldown timer is due
CooldownFire ==
    /\ cli.pc \in {"tool", "plan-done"}
    /\ 0 \in cli.cooldowns
    /\ cli' = [cli EXCEPT !.cooldowns = @ \ {0},
                          !.ctrlCCount = IF @ < 2 THEN 0 ELSE @]
    /\ UNCHANGED <<streamVars, sess, det, pkg, io, duo>>

\* One second passes; no timer is overdue.
SigTick ==
    /\ cli.pc = "tool"
    /\ 0 \notin cli.cooldowns
    /\ cli' = [cli EXCEPT !.cooldowns = {r - 1 : r \in @},
                          !.last = IF @ < Cooldown THEN @ + 1 ELSE @]
    /\ UNCHANGED <<streamVars, sess, det, pkg, io, duo>>

\* resetAbort()
resetAbort(c) == [c EXCEPT !.aborted = FALSE, !.ctrlCCount = 0]

\* The install of the tool and its recovery have ended, one way or another:
\* the loop goes to the next tool, which starts with resetAbort(), or ends.
NextTool ==
    /\ cli.pc = "tool"
    /\ cli' = IF cli.tool < MaxTools
              THEN resetAbort([cli EXCEPT !.tool = @ + 1])
              ELSE [cli EXCEPT !.pc = "plan-done"]
    /\ UNCHANGED <<streamVars, sess, det, pkg, io, duo>>

SigNext ==
    \/ SigInt
    \/ CooldownFire
    \/ SigTick
    \/ NextTool

SigSpec == SigInit /\ [][SigNext]_vars

\* C40: a Ctrl+C cancels the tool being installed and no other; every tool
\* starts with a token that has not fired; and a Ctrl+C that comes less than
\* 3 s after the one before exits the process with code 130.
C40_CtrlCCancelsOneToolTwiceExits ==
    /\ [][SigInt => cli'.cancelled \subseteq cli.cancelled \cup {cli.tool}]_vars
    /\ [][(NextTool /\ cli'.pc = "tool") => ~cli'.aborted]_vars
    /\ [][(SigInt /\ cli.last < Cooldown) => (cli'.pc = "exited" /\ cli'.exit = "130")]_vars

====
